---- MODULE Spec2Model ----
(***************************************************************************)
(* Hybrid intent classification engine: the TTL/LRU result cache           *)
(* (MemoryCacheService), the arbitration of rule and vector results        *)
(* (_select_best_result) and the per-request state machine of              *)
(* HybridIntentDetectionService.detect_intent.                             *)
(*                                                                         *)
(* Confidences and scores are fixed-point numbers in thousandths           *)
(* (0.7 is 700).  Times are whole seconds.  An Optional[T] is a sequence   *)
(* of length at most one: <<>> is None, <<x>> is the value x.              *)
(***************************************************************************)
EXTENDS Integers, Sequences, FiniteSets, TLC

VARIABLES
    cache,          \* MemoryCacheService._cache: entries in OrderedDict order
    now,            \* time.time()
    lastOp,         \* the last cache operation and what it returned
    recency,        \* history: stored keys by their last successful get/set
    req,            \* history: per key, the last set request still in force
    config,         \* HybridIntentDetectionService.config
    vector_search_enabled,  \* HybridIntentDetectionService.vector_search_enabled
    faults,         \* TRUE when the collaborators are simulated as failing
    pc,             \* where the detect_intent call in progress stands
    query,          \* context.query
    rule_match,     \* local rule_match
    query_embedding,\* local query_embedding of _vector_search
    vector_result,  \* local vector_result
    best_result,    \* local best_result
    result,         \* what detect_intent returned
    exc,            \* the exception raised inside the try block, "" when none
    trace,          \* history: the steps and collaborator calls of this call
    good,           \* history: per cache key, the cacheable result last returned
    expect,         \* history: the result a cache hit owes this call
    tasks,          \* the tasks that share the cache, each with the operation it runs
    detector,       \* RuleBasedDetectorImpl: rules, early_exit_threshold, its calls
    batch,          \* the batch call in progress
    search_candidates,  \* what the vector store returned to _vector_search
    reranker,       \* CrossEncoderReranker and its call of rerank
    loader,         \* ProductionRuleLoader: the rule file and what load_rules returned
    metrics,        \* MetricsCollectorImpl: its lock, its histograms, the threads in it
    matches         \* _detect_intent_rule: the matches collected and their order

cacheVars == <<cache, now, lastOp, recency, req>>
callVars == <<pc, query, rule_match, query_embedding, vector_result, best_result,
              result, exc, trace, expect>>
serviceVars == <<config, vector_search_enabled, faults, good>>
extraVars == <<reranker, loader, metrics, matches>>
otherVars == <<tasks, detector, batch, search_candidates, extraVars>>
vars == <<cacheVars, serviceVars, callVars, otherVars>>

None == <<>>
Some(x) == <<x>>

(***************************************************************************)
(* Bounds of the model.                                                    *)
(***************************************************************************)
max_size == 2       \* MemoryCacheService(max_size=...)
TickUnit == 350     \* seconds that pass between two calls of detect_intent
MaxTime == 700      \* the clock of the service stops here
CacheTick == 150    \* seconds that pass in one step of the clock of the cache alone
CacheMaxTime == 450 \* the clock of the cache alone stops here

(***************************************************************************)
(* MemoryCacheService                                                      *)
(***************************************************************************)
default_ttl == 300

CacheKeys == {"k1", "k2", "k3"}
CacheValues == {"v1", "v2"}
TtlArgs == {None, Some(0), Some(CacheTick)}

Keys(c) == {c[i].key : i \in 1..Len(c)}

IndexOf(c, k) == CHOOSE i \in 1..Len(c) : c[i].key = k

\* del self._cache[key]
Without(c, k) == SelectSeq(c, LAMBDA e : e.key # k)

\* self._cache.move_to_end(key)
MoveToEnd(c, k) == Without(c, k) \o <<c[IndexOf(c, k)]>>

\* get() that forgets the move_to_end of a hit
MemoryCacheGet_NoPromote(c, t, k) ==
    IF k \in Keys(c)
    THEN LET e == c[IndexOf(c, k)] IN
         IF t > e.expiry
         THEN [cache |-> Without(c, k), value |-> None]
         ELSE [cache |-> c, value |-> Some(e.value)]
    ELSE [cache |-> c, value |-> None]

\* get(key): the cache afterwards and the value returned
MemoryCacheGet(c, t, k) ==
    IF k \in Keys(c)
    THEN LET e == c[IndexOf(c, k)] IN
         IF t > e.expiry
         THEN [cache |-> Without(c, k), value |-> None]
         ELSE [cache |-> MoveToEnd(c, k), value |-> Some(e.value)]
    ELSE [cache |-> c, value |-> None]

\* ttl = ttl_seconds or self.default_ttl
EffectiveTtl(ttl_seconds) ==
    IF ttl_seconds = None \/ ttl_seconds = Some(0) THEN default_ttl ELSE ttl_seconds[1]

\* the key set() evicts: next(iter(self._cache)) when a new key meets a full cache
EvictedBySet(c, k) ==
    IF k \notin Keys(c) /\ Len(c) >= max_size /\ Len(c) > 0 THEN Some(c[1].key) ELSE None

\* set() that compares len(self._cache) > self.max_size before evicting
MemoryCacheSet_LateEvict(c, t, k, v, ttl_seconds) ==
    LET e == [key |-> k, value |-> v, expiry |-> t + EffectiveTtl(ttl_seconds)] IN
    IF k \notin Keys(c) /\ Len(c) > max_size
    THEN Tail(c) \o <<e>>
    ELSE IF k \in Keys(c)
         THEN Without(c, k) \o <<e>>
         ELSE c \o <<e>>

\* set(key, value, ttl_seconds): the cache afterwards
MemoryCacheSet(c, t, k, v, ttl_seconds) ==
    LET e == [key |-> k, value |-> v, expiry |-> t + EffectiveTtl(ttl_seconds)] IN
    IF k \notin Keys(c) /\ Len(c) >= max_size
    THEN IF Len(c) = 0
         THEN c      \* next(iter({})) raises StopIteration, swallowed by the except
         ELSE Tail(c) \o <<e>>
    ELSE IF k \in Keys(c)
         THEN Without(c, k) \o <<e>>
         ELSE c \o <<e>>

\* delete(key)
MemoryCacheDelete(c, k) == Without(c, k)

\* clear()
MemoryCacheClear(c) == <<>>

(***************************************************************************)
(* VietnameseTextProcessor.  A text is the sequence of its words, joined   *)
(* by single spaces; the empty word "" stands for the place between two    *)
(* adjacent whitespace characters (<<"a", "", "b">> is "a  b", <<"it", "">>*)
(* is "it ").  The vocabulary is ASCII, on which NFC changes nothing.      *)
(***************************************************************************)
Words == {"it", "IT", "information", "technology", "weather", "tuition", "hello",
          "fpt", "FPT", "university", "marketing", "digital"}

\* text.lower(), word by word
Lower(w) == IF w = "IT" THEN "it" ELSE IF w = "FPT" THEN "fpt" ELSE w

\* len(word)
WordLen(w) ==
    CASE w = "" -> 0
      [] w \in {"it", "IT"} -> 2
      [] w \in {"fpt", "FPT"} -> 3
      [] w = "hello" -> 5
      [] w \in {"weather", "tuition", "digital"} -> 7
      [] w = "marketing" -> 9
      [] w \in {"technology", "university"} -> 10
      [] w = "information" -> 11

\* the entries of self.abbreviations whose key is a word of the vocabulary,
\* in the order of the dict
abbreviations ==
    << [abbr |-> "fpt", full |-> <<"fpt", "university">>],
       [abbr |-> "it", full |-> <<"information", "technology">>],
       [abbr |-> "marketing", full |-> <<"digital", "marketing">>] >>

RECURSIVE MapLower(_)
MapLower(t) == IF t = <<>> THEN <<>> ELSE <<Lower(Head(t))>> \o MapLower(Tail(t))

\* self.whitespace_pattern.sub(' ', text).strip()
CollapseWhitespace(t) == SelectSeq(t, LAMBDA w : w # "")

\* self.abbreviation_patterns[abbr].sub(full, text): \babbr\b, every occurrence
RECURSIVE Substitute(_, _, _)
Substitute(t, abbr, full) ==
    IF t = <<>> THEN <<>>
    ELSE (IF Head(t) = abbr THEN full ELSE <<Head(t)>>) \o Substitute(Tail(t), abbr, full)

RECURSIVE ExpandAbbreviations(_, _)
ExpandAbbreviations(t, i) ==
    IF i > Len(abbreviations) THEN t
    ELSE ExpandAbbreviations(Substitute(t, abbreviations[i].abbr, abbreviations[i].full), i + 1)

normalize_vietnamese(text) ==
    ExpandAbbreviations(CollapseWhitespace(MapLower(text)), 1)

RECURSIVE SumLen(_)
SumLen(t) == IF t = <<>> THEN 0 ELSE WordLen(Head(t)) + SumLen(Tail(t))

\* len(text)
TextLen(t) == IF t = <<>> THEN 0 ELSE SumLen(t) + Len(t) - 1

RECURSIVE StripLeft(_)
StripLeft(t) == IF t # <<>> /\ Head(t) = "" THEN StripLeft(Tail(t)) ELSE t

RECURSIVE StripRight(_)
StripRight(t) ==
    IF t # <<>> /\ t[Len(t)] = "" THEN StripRight(SubSeq(t, 1, Len(t) - 1)) ELSE t

\* text.strip()
Strip(t) == StripRight(StripLeft(t))

\* any(extract_academic_context(text).values()): one of academic_patterns,
\* program_patterns or campus_patterns is found in the normalized text.  Of the
\* vocabulary, "tuition" holds 'tuition' (and 'it'), "it" is 'it', and
\* "information technology" is a program name; the other words hold none.
extract_academic_context(text) ==
    LET n == normalize_vietnamese(text) IN
    /\ TextLen(text) > 0
    /\ \/ \E i \in 1..Len(n) : n[i] \in {"tuition", "it"}
       \/ \E i \in 1..(Len(n) - 1) : n[i] = "information" /\ n[i + 1] = "technology"

\* one of self.compiled_irrelevant is found in the text as given (IGNORECASE):
\* of the vocabulary only "weather" holds an off-topic term
MatchesIrrelevantPattern(text) == \E i \in 1..Len(text) : Lower(text[i]) = "weather"

\* VietnameseTextProcessor.is_irrelevant_query
is_irrelevant_query_OffTopicFirst(text) ==
    IF TextLen(text) = 0 THEN TRUE
    ELSE IF TextLen(Strip(text)) < 3 THEN TRUE
    ELSE IF MatchesIrrelevantPattern(text) THEN TRUE
    ELSE FALSE

is_irrelevant_query(text) ==
    IF TextLen(text) = 0 THEN TRUE
    ELSE IF TextLen(Strip(text)) < 3 THEN TRUE
    ELSE IF extract_academic_context(text) THEN FALSE
    ELSE MatchesIrrelevantPattern(text)

(***************************************************************************)
(* HybridConfig and the results of HybridIntentDetectionService.           *)
(***************************************************************************)
rule_high_confidence_threshold == 700
rule_medium_confidence_threshold == 300
early_exit_threshold == 800
vector_confidence_threshold == 600
cache_ttl_seconds == 600
cache_min_confidence == 500

DefaultHybridConfig ==
    [rule_high_confidence_threshold |-> rule_high_confidence_threshold,
     rule_medium_confidence_threshold |-> rule_medium_confidence_threshold,
     early_exit_threshold |-> early_exit_threshold,
     vector_confidence_threshold |-> vector_confidence_threshold,
     enable_caching |-> TRUE,
     cache_ttl_seconds |-> cache_ttl_seconds,
     cache_min_confidence |-> cache_min_confidence]

\* DetectionMethod
DetectionMethod == {"rule", "vector", "rerank", "hybrid", "fallback"}

\* _create_rule_result
create_rule_result_Weighted(rm, method) ==
    [id |-> rm.intent_id, confidence |-> (rm.score * rm.weight) \div 1000, method |-> method,
     metadata |-> [rule_weight |-> rm.weight]]

create_rule_result(rm, method) ==
    [id |-> rm.intent_id, confidence |-> rm.score, method |-> method,
     metadata |-> [rule_weight |-> rm.weight]]

create_fallback_result(confidence, method) ==
    [id |-> "unknown", confidence |-> confidence, method |-> method,
     metadata |-> [fallback |-> TRUE, reason |-> "no_intent_detected"]]

\* _select_best_result with the priorities 2 and 3 exchanged
select_best_result_RuleFirst(rm, vr) ==
    IF rm # None /\ rm[1].score >= config.early_exit_threshold
    THEN create_rule_result(rm[1], "rule")
    ELSE IF rm # None /\ rm[1].score >= config.rule_high_confidence_threshold
    THEN create_rule_result(rm[1], "rule")
    ELSE IF vr # None /\ vr[1].confidence >= config.vector_confidence_threshold
    THEN vr[1]
    ELSE IF rm # None /\ rm[1].score >= config.rule_medium_confidence_threshold
    THEN create_rule_result(rm[1], "rule")
    ELSE IF vr # None
    THEN vr[1]
    ELSE create_fallback_result(200, "fallback")

\* _select_best_result(rule_match, vector_result)
select_best_result(rm, vr) ==
    IF rm # None /\ rm[1].score >= config.early_exit_threshold
    THEN create_rule_result(rm[1], "rule")
    ELSE IF vr # None /\ vr[1].confidence >= config.vector_confidence_threshold
    THEN IF rm # None /\ rm[1].score >= config.rule_high_confidence_threshold
         THEN IF vr[1].confidence > rm[1].score
              THEN vr[1]
              ELSE create_rule_result(rm[1], "hybrid")
         ELSE vr[1]
    ELSE IF rm # None /\ rm[1].score >= config.rule_high_confidence_threshold
    THEN create_rule_result(rm[1], "rule")
    ELSE IF rm # None /\ rm[1].score >= config.rule_medium_confidence_threshold
    THEN create_rule_result(rm[1], "rule")
    ELSE IF vr # None
    THEN vr[1]
    ELSE create_fallback_result(200, "fallback")

Min(a, b) == IF a <= b THEN a ELSE b

\* _vector_search, from the candidates on: the result built from candidates[0]
vector_result_of_Uncapped(candidates) ==
    IF candidates = <<>> THEN None
    ELSE LET best_candidate == candidates[1]
             adjusted_confidence ==
                 IF best_candidate.score >= 900
                 THEN (best_candidate.score * 11) \div 10
                 ELSE best_candidate.score
         IN Some([id |-> best_candidate.intent_id,
                  confidence |-> adjusted_confidence,
                  method |-> "vector",
                  metadata |-> [vector_score |-> best_candidate.score,
                                candidates_count |-> Len(candidates),
                                confidence_adjusted |->
                                    (adjusted_confidence # best_candidate.score)]])

vector_result_of(candidates) ==
    IF candidates = <<>> THEN None
    ELSE LET best_candidate == candidates[1]
             adjusted_confidence ==
                 IF best_candidate.score >= 900
                 THEN Min(950, (best_candidate.score * 11) \div 10)
                 ELSE best_candidate.score
         IN Some([id |-> best_candidate.intent_id,
                  confidence |-> adjusted_confidence,
                  method |-> "vector",
                  metadata |-> [vector_score |-> best_candidate.score,
                                candidates_count |-> Len(candidates),
                                confidence_adjusted |->
                                    (adjusted_confidence # best_candidate.score)]])

\* _generate_cache_key: md5 of the normalized query, taken as injective
generate_cache_key_Raw(q) == <<"intent">> \o q

generate_cache_key(q) == <<"intent">> \o normalize_vietnamese(q)

\* detect_intent, step 2: if self.text_processor.is_irrelevant_query(query)
irrelevant_short_circuit_Never(q) == FALSE

irrelevant_short_circuit(q) == is_irrelevant_query(q)

\* detect_intent, step 3: if not rule_match or rule_match.score < early_exit_threshold
needs_vector_search_Always(rm) == TRUE

needs_vector_search(rm) == rm = None \/ rm[1].score < config.early_exit_threshold

\* detect_intent, step 5: if best_result.confidence >= cache_min_confidence
should_cache_Always(r) == TRUE

should_cache(r) == r.confidence >= config.cache_min_confidence

\* the except clauses of detect_intent: the result returned, None when the
\* exception is caught by none of them
handle_exception_NoCatchAll(e) ==
    IF e \in {"VectorSearchError", "RuleDetectionError"}
    THEN Some(create_fallback_result(100, "fallback"))
    ELSE None

handle_exception(e) ==
    IF e = "VectorSearchError" THEN Some(create_fallback_result(100, "fallback"))
    ELSE IF e = "RuleDetectionError" THEN Some(create_fallback_result(100, "fallback"))
    ELSE IF e \in {"IntentDetectionError", "Exception"}
    THEN Some(create_fallback_result(100, "fallback"))
    ELSE None

(***************************************************************************)
(* History of the cache operations.                                        *)
(***************************************************************************)
Remove(s, k) == SelectSeq(s, LAMBDA x : x # k)
Touch(s, k) == Remove(s, k) \o <<k>>
Restrict(s, c) == SelectSeq(s, LAMBDA x : x \in Keys(c))

NoOp == [op |-> "none", key |-> "", ret |-> None, evicted |-> None, full |-> FALSE]

\* no task, rule detector or batch takes part
\* no reranker, rule loader, metrics collector or legacy matcher takes part
NoExtra ==
    /\ reranker = <<>>
    /\ loader = <<>>
    /\ metrics = <<>>
    /\ matches = <<>>

NoOther ==
    /\ tasks = <<>>
    /\ detector = <<>>
    /\ batch = <<>>
    /\ search_candidates = <<>>
    /\ NoExtra

\* no call is in progress
NoCall ==
    /\ pc = "idle"
    /\ query = <<>>
    /\ rule_match = None
    /\ query_embedding = None
    /\ vector_result = None
    /\ best_result = None
    /\ result = None
    /\ exc = ""
    /\ trace = <<>>
    /\ expect = None

\* the service as ServiceFactory builds it
DefaultService ==
    /\ config = DefaultHybridConfig
    /\ good = <<>>

InitCache ==
    /\ cache = <<>>
    /\ now = 0
    /\ lastOp = NoOp
    /\ recency = <<>>
    /\ req = [k \in CacheKeys |-> None]
    /\ DefaultService
    /\ vector_search_enabled = FALSE
    /\ faults = FALSE
    /\ NoCall
    /\ NoOther

Get(k) ==
    LET r == MemoryCacheGet(cache, now, k) IN
    /\ cache' = r.cache
    /\ lastOp' = [op |-> "get", key |-> k, ret |-> r.value, evicted |-> None, full |-> FALSE]
    /\ recency' = Restrict(IF r.value # None THEN Touch(recency, k) ELSE recency, r.cache)
    /\ UNCHANGED <<now, req, serviceVars, otherVars, callVars>>

Set(k, v, ttl_seconds) ==
    LET c2 == MemoryCacheSet(cache, now, k, v, ttl_seconds)
        ev == EvictedBySet(cache, k)
        asked == IF ttl_seconds = None THEN default_ttl ELSE ttl_seconds[1]
    IN
    /\ cache' = c2
    /\ lastOp' = [op |-> "set", key |-> k, ret |-> None, evicted |-> ev,
                  full |-> (k \notin Keys(cache) /\ Len(cache) = max_size)]
    /\ recency' = Restrict(Touch(recency, k), c2)
    /\ req' = [x \in CacheKeys |->
                 IF x = k THEN Some([value |-> v, deadline |-> now + asked])
                 ELSE IF ev = Some(x) THEN None
                 ELSE req[x]]
    /\ UNCHANGED <<now, serviceVars, otherVars, callVars>>

Delete(k) ==
    /\ cache' = MemoryCacheDelete(cache, k)
    /\ lastOp' = [op |-> "delete", key |-> k, ret |-> None, evicted |-> None, full |-> FALSE]
    /\ recency' = Remove(recency, k)
    /\ req' = [req EXCEPT ![k] = None]
    /\ UNCHANGED <<now, serviceVars, otherVars, callVars>>

Clear ==
    /\ cache' = MemoryCacheClear(cache)
    /\ lastOp' = [op |-> "clear", key |-> "", ret |-> None, evicted |-> None, full |-> FALSE]
    /\ recency' = <<>>
    /\ req' = [k \in CacheKeys |-> None]
    /\ UNCHANGED <<now, serviceVars, otherVars, callVars>>

Tick ==
    /\ now + CacheTick <= CacheMaxTime
    /\ now' = now + CacheTick
    /\ lastOp' = [NoOp EXCEPT !.op = "tick"]
    /\ UNCHANGED <<cache, recency, req, serviceVars, otherVars, callVars>>

NextCache ==
    \/ \E k \in CacheKeys : Get(k)
    \/ \E k \in CacheKeys, v \in CacheValues, t \in TtlArgs : Set(k, v, t)
    \/ \E k \in CacheKeys : Delete(k)
    \/ Clear
    \/ Tick

SpecCache == InitCache /\ [][NextCache]_vars

(***************************************************************************)
(* Claims about MemoryCacheService, checked under SpecCache.               *)
(***************************************************************************)

\* C8: a set of a new key into a cache holding max_size entries evicts exactly
\* one entry, the one whose most recent successful get or set is the oldest,
\* and stores the new key.
C8_LruEviction ==
    [][ (lastOp'.op = "set" /\ lastOp'.key \notin Keys(cache) /\ Len(cache) = max_size)
        => /\ Len(cache') = max_size
           /\ Keys(cache') = (Keys(cache) \ {Head(recency)}) \cup {lastOp'.key} ]_vars

\* C8 witness: a set of a new key has just evicted an entry from a full cache.
C8_Witness ==
    /\ lastOp.op = "set"
    /\ lastOp.full
    /\ lastOp.evicted # None
    /\ Len(cache) = max_size

\* C9: the number of stored entries never exceeds max_size.
C9_SizeBound == Len(cache) <= max_size

\* C9 witness: a set of a new key has just been applied to a full cache.
C9_Witness == lastOp.op = "set" /\ lastOp.full /\ Len(cache) = max_size /\ now > 0

\* C10: after set(k, v, ttl) with no later set, delete, clear or eviction of k,
\* get(k) returns v before ttl seconds have elapsed, and after ttl seconds
\* have elapsed it returns absent and k is no longer stored.
C10_RoundTrip ==
    (lastOp.op = "get" /\ req[lastOp.key] # None)
    => LET r == req[lastOp.key][1] IN
       /\ now < r.deadline => lastOp.ret = Some(r.value)
       /\ now > r.deadline => (lastOp.ret = None /\ lastOp.key \notin Keys(cache))

\* the entry stored under k has outlived its TTL
IsExpired(c, t, k) == k \in Keys(c) /\ t > c[IndexOf(c, k)].expiry

Queries ==
    { <<>>,                                 \* ""
      <<"it">>,                             \* "it"
      <<"information", "technology">>,      \* "information technology"
      <<"weather">>,                        \* "weather"
      <<"tuition">>,                        \* "tuition"
      <<"tuition", "">>,                    \* "tuition "
      <<"hello">> }                         \* "hello"

KeySpace == {generate_cache_key(q) : q \in Queries}

\* what RuleBasedDetectorImpl.detect may return
RuleOutcomes ==
    {None} \cup {Some([intent_id |-> "tuition_inquiry", score |-> sc, weight |-> 1400]) :
                    sc \in {560, 850}}

\* what OpenAIEmbeddingService.embed_text may return
EmbeddingOutcomes == {None, Some("embedding")}

\* what QdrantVectorStore.search may return, best candidate first
CandidateLists ==
    { <<>>,
      <<[intent_id |-> "program_information", score |-> 500]>>,
      <<[intent_id |-> "program_information", score |-> 650]>>,
      <<[intent_id |-> "program_information", score |-> 920],
        [intent_id |-> "campus_facilities", score |-> 650]>> }

\* the dict _cache_result stores, which IntentResult(**cached_data) reads back
cache_data(r) ==
    [id |-> r.id, confidence |-> r.confidence, method |-> r.method, metadata |-> r.metadata]

Raise(e) ==
    /\ exc' = e
    /\ pc' = "except"

Init ==
    /\ cache = <<>>
    /\ now = 0
    /\ lastOp = NoOp
    /\ recency = <<>>
    /\ req = <<>>
    /\ config = DefaultHybridConfig
    /\ good = [k \in KeySpace |-> None]
    /\ vector_search_enabled \in BOOLEAN
    /\ faults = TRUE
    /\ NoCall
    /\ NoOther

\* a caller awaits detect_intent(DetectionContext(query=q))
Call(q) ==
    /\ pc = "idle"
    /\ query' = q
    /\ pc' = IF config.enable_caching THEN "cache_lookup" ELSE "relevance"
    /\ UNCHANGED <<cacheVars, serviceVars, otherVars, rule_match, query_embedding, vector_result,
                   best_result, result, exc, trace, expect>>

\* step 1: cached_result = await self._get_cached_result(query)
CacheLookup ==
    /\ pc = "cache_lookup"
    /\ trace' = Append(trace, "cache_lookup")
    /\ \/ /\ faults
          /\ Raise("Exception")
          /\ UNCHANGED <<cache, good, expect, result>>
       \/ LET k == generate_cache_key(query)
              nk == <<"intent">> \o normalize_vietnamese(query)
              r == MemoryCacheGet(cache, now, k)
              expired == {cache[i].key : i \in {j \in 1..Len(cache) : now > cache[j].expiry}}
          IN
          /\ cache' = r.cache
          /\ expect' = IF nk \in expired THEN None ELSE good[nk]
          /\ good' = [x \in KeySpace |-> IF x \in Keys(cache) \ Keys(r.cache) THEN None ELSE good[x]]
          /\ IF r.value # None /\ r.value[1].confidence >= config.cache_min_confidence
             THEN /\ result' = r.value
                  /\ pc' = "done"
             ELSE /\ result' = result
                  /\ pc' = "relevance"
          /\ exc' = exc
    /\ UNCHANGED <<now, lastOp, recency, req, config, vector_search_enabled, faults, otherVars,
                   query, rule_match, query_embedding, vector_result, best_result>>

\* step 2: the irrelevant-query short circuit
RelevanceCheck ==
    /\ pc = "relevance"
    /\ trace' = Append(trace, "relevance")
    /\ \/ /\ faults
          /\ Raise("Exception")
          /\ UNCHANGED result
       \/ /\ IF irrelevant_short_circuit(query)
             THEN /\ result' = Some(create_fallback_result(100, "fallback"))
                  /\ pc' = "done"
             ELSE /\ result' = result
                  /\ pc' = "rule"
          /\ exc' = exc
    /\ UNCHANGED <<cacheVars, serviceVars, otherVars, query, rule_match, query_embedding,
                   vector_result, best_result, expect>>

\* step 3: rule_match = await self.rule_detector.detect(query)
RuleDetect ==
    /\ pc = "rule"
    /\ trace' = Append(trace, "rule")
    /\ \/ /\ faults
          /\ \E e \in {"RuleDetectionError", "Exception"} : Raise(e)
          /\ UNCHANGED rule_match
       \/ \E rm \in RuleOutcomes :
             /\ rule_match' = rm
             /\ pc' = IF needs_vector_search(rm) THEN "vector" ELSE "arbitrate"
             /\ exc' = exc
    /\ UNCHANGED <<cacheVars, serviceVars, otherVars, query, query_embedding, vector_result,
                   best_result, result, expect>>

\* _vector_search: if not self.vector_search_enabled: return None
VectorSearch ==
    /\ pc = "vector"
    /\ trace' = Append(trace, "vector")
    /\ pc' = IF vector_search_enabled THEN "embed" ELSE "arbitrate"
    /\ UNCHANGED <<cacheVars, serviceVars, otherVars, query, rule_match, query_embedding,
                   vector_result, best_result, result, exc, expect>>

\* _vector_search: query_embedding = await self.embedding_service.embed_text(query)
EmbedText ==
    /\ pc = "embed"
    /\ trace' = Append(trace, "embed_text")
    /\ \/ /\ faults
          /\ Raise("VectorSearchError")
          /\ UNCHANGED query_embedding
       \/ \E e \in EmbeddingOutcomes :
             /\ query_embedding' = e
             /\ pc' = IF e = None THEN "arbitrate" ELSE "search"
             /\ exc' = exc
    /\ UNCHANGED <<cacheVars, serviceVars, otherVars, query, rule_match, vector_result,
                   best_result, result, expect>>

\* _vector_search: candidates = await self.vector_store.search(...) and the rest
StoreSearch ==
    /\ pc = "search"
    /\ trace' = Append(trace, "search")
    /\ \/ /\ faults
          /\ Raise("VectorSearchError")
          /\ UNCHANGED vector_result
       \/ \E candidates \in CandidateLists :
             /\ vector_result' = vector_result_of(candidates)
             /\ pc' = "arbitrate"
             /\ exc' = exc
    /\ UNCHANGED <<cacheVars, serviceVars, otherVars, query, rule_match, query_embedding,
                   best_result, result, expect>>

\* step 4: best_result = self._select_best_result(rule_match, vector_result)
Arbitrate ==
    /\ pc = "arbitrate"
    /\ trace' = Append(trace, "arbitrate")
    /\ LET best == select_best_result(rule_match, vector_result) IN
       /\ best_result' = Some(best)
       /\ IF should_cache(best)
          THEN /\ pc' = "cache_write"
               /\ result' = result
          ELSE /\ pc' = "done"
               /\ result' = Some(best)
    /\ UNCHANGED <<cacheVars, serviceVars, otherVars, query, rule_match, query_embedding,
                   vector_result, exc, expect>>

\* step 5: await self._cache_result(query, best_result); return best_result
CacheWrite ==
    /\ pc = "cache_write"
    /\ trace' = Append(trace, "cache_write")
    /\ \/ /\ faults
          /\ Raise("Exception")
          /\ UNCHANGED <<cache, good, result>>
       \/ LET k == generate_cache_key(query)
              c2 == IF config.enable_caching
                    THEN MemoryCacheSet(cache, now, k, cache_data(best_result[1]),
                                        Some(config.cache_ttl_seconds))
                    ELSE cache
          IN
          /\ cache' = c2
          /\ good' = [x \in KeySpace |-> IF x \in Keys(cache) \ Keys(c2) THEN None ELSE good[x]]
          /\ result' = best_result
          /\ pc' = "done"
          /\ exc' = exc
    /\ UNCHANGED <<now, lastOp, recency, req, config, vector_search_enabled, faults, otherVars,
                   query, rule_match, query_embedding, vector_result, best_result, expect>>

\* the except clauses of detect_intent
Except ==
    /\ pc = "except"
    /\ LET h == handle_exception(exc) IN
       IF h # None
       THEN /\ result' = h
            /\ pc' = "done"
       ELSE /\ result' = None
            /\ pc' = "raised"
    /\ UNCHANGED <<cacheVars, serviceVars, otherVars, query, rule_match, query_embedding,
                   vector_result, best_result, exc, trace, expect>>

\* the caller receives the result (or the exception); the locals are gone
Return ==
    /\ pc \in {"done", "raised"}
    /\ good' = IF pc = "done" /\ result[1].confidence >= config.cache_min_confidence
               THEN [good EXCEPT ![<<"intent">> \o normalize_vietnamese(query)] =
                        Some(cache_data(result[1]))]
               ELSE good
    /\ pc' = "idle"
    /\ query' = <<>>
    /\ rule_match' = None
    /\ query_embedding' = None
    /\ vector_result' = None
    /\ best_result' = None
    /\ result' = None
    /\ exc' = ""
    /\ trace' = <<>>
    /\ expect' = None
    /\ UNCHANGED <<cacheVars, config, vector_search_enabled, faults, otherVars>>

\* time passes between calls
Elapse ==
    /\ pc = "idle"
    /\ now + TickUnit <= MaxTime
    /\ now' = now + TickUnit
    /\ UNCHANGED <<cache, lastOp, recency, req, serviceVars, otherVars, callVars>>

Next ==
    \/ \E q \in Queries : Call(q)
    \/ CacheLookup
    \/ RelevanceCheck
    \/ RuleDetect
    \/ VectorSearch
    \/ EmbedText
    \/ StoreSearch
    \/ Arbitrate
    \/ CacheWrite
    \/ Except
    \/ Return
    \/ Elapse

Spec == Init /\ [][Next]_vars

\* the service with the collaborators ServiceFactory wires in, none of which
\* raises: each catches its own exceptions
InitReal ==
    /\ cache = <<>>
    /\ now = 0
    /\ lastOp = NoOp
    /\ recency = <<>>
    /\ req = <<>>
    /\ config = DefaultHybridConfig
    /\ good = [k \in KeySpace |-> None]
    /\ vector_search_enabled \in BOOLEAN
    /\ faults = FALSE
    /\ NoCall
    /\ NoOther

\* detect_intent when nothing raises: no exception reaches the except clauses
NextReal ==
    \/ \E q \in Queries : Call(q)
    \/ CacheLookup
    \/ RelevanceCheck
    \/ RuleDetect
    \/ VectorSearch
    \/ EmbedText
    \/ StoreSearch
    \/ Arbitrate
    \/ CacheWrite
    \/ Return
    \/ Elapse

SpecReal == InitReal /\ [][NextReal]_vars

(***************************************************************************)
(* _select_best_result on its own: every pair of an optional rule match    *)
(* and an optional vector result, under every configuration of a grid of   *)
(* thresholds.                                                             *)
(***************************************************************************)
SelectThresholds == {300, 600, 700, 800}
SelectScores == {250, 300, 600, 650, 700, 750, 800, 950}

SelectConfigs ==
    {[DefaultHybridConfig EXCEPT !.early_exit_threshold = e,
                                 !.rule_high_confidence_threshold = h,
                                 !.rule_medium_confidence_threshold = m,
                                 !.vector_confidence_threshold = v] :
        e \in SelectThresholds, h \in SelectThresholds,
        m \in SelectThresholds, v \in SelectThresholds}

SelectRuleMatches ==
    {None} \cup {Some([intent_id |-> "tuition_inquiry", score |-> sc, weight |-> 1400]) :
                    sc \in SelectScores}

SelectVectorResults ==
    {None} \cup {vector_result_of(<<[intent_id |-> "program_information", score |-> sc]>>) :
                    sc \in SelectScores}

InitSelect ==
    /\ cache = <<>>
    /\ now = 0
    /\ lastOp = NoOp
    /\ recency = <<>>
    /\ req = <<>>
    /\ good = <<>>
    /\ vector_search_enabled = TRUE
    /\ faults = FALSE
    /\ config \in SelectConfigs
    /\ pc = "select"
    /\ query = <<>>
    /\ rule_match \in SelectRuleMatches
    /\ query_embedding = None
    /\ vector_result \in SelectVectorResults
    /\ best_result = None
    /\ result = None
    /\ exc = ""
    /\ trace = <<>>
    /\ expect = None
    /\ NoOther

Select ==
    /\ pc = "select"
    /\ result' = Some(select_best_result(rule_match, vector_result))
    /\ pc' = "selected"
    /\ UNCHANGED <<cacheVars, serviceVars, otherVars, query, rule_match, query_embedding,
                   vector_result, best_result, exc, trace, expect>>

NextSelect == Select

SpecSelect == InitSelect /\ [][NextSelect]_vars

(***************************************************************************)
(* Claims about detect_intent and _select_best_result.                     *)
(***************************************************************************)
IsFallback(r, confidence) ==
    /\ r.id = "unknown"
    /\ r.method = "fallback"
    /\ r.confidence = confidence
    /\ "fallback" \in DOMAIN r.metadata
    /\ r.metadata.fallback = TRUE

IsRuleResult(r, rm, method) ==
    /\ r.id = rm.intent_id
    /\ r.confidence = rm.score
    /\ r.method = method

Called(step) == \E i \in 1..Len(trace) : trace[i] = step

\* the call was answered from the cache
CacheHit == pc = "done" /\ exc = "" /\ trace = <<"cache_lookup">>

\* C1: detect_intent never raises and always returns an IntentResult; when a
\* collaborator raised, the result is 'unknown', FALLBACK, metadata.fallback.
C1_NeverRaises ==
    /\ pc # "raised"
    /\ pc = "done" =>
         /\ result # None
         /\ result[1].method \in DetectionMethod
         /\ exc # "" => \E c \in {100, 200} : IsFallback(result[1], c)

\* C1 witness: a call in which the cache write raised, after a rule match,
\* has completed.
C1_Witness ==
    /\ pc = "done"
    /\ exc = "Exception"
    /\ rule_match # None
    /\ Called("cache_write")

\* C2: when the rule detector matched with score >= rule_medium_confidence_threshold
\* and the vector search then fails, detect_intent returns the rule match with
\* method RULE and the rule score.
C2_VectorFailureKeepsRule ==
    (/\ pc = "done"
     /\ exc = "VectorSearchError"
     /\ rule_match # None
     /\ rule_match[1].score >= config.rule_medium_confidence_threshold)
    => IsRuleResult(result[1], rule_match[1], "rule")

\* C3: _select_best_result returns the outcome of the first applicable rule of
\* the ordered list (1) rule >= early exit: RULE; (2) vector >= vector
\* threshold: with rule >= high the higher of the two (VECTOR, or the rule as
\* HYBRID), else VECTOR; (3) rule >= high: RULE; (4) rule >= medium: RULE;
\* (5) any vector result: VECTOR; (6) FALLBACK 'unknown' with confidence 0.2.
C3_Arbitration ==
    pc = "selected" =>
    LET rm == rule_match
        vr == vector_result
        r == result[1]
        P1 == rm # None /\ rm[1].score >= config.early_exit_threshold
        P2 == vr # None /\ vr[1].confidence >= config.vector_confidence_threshold
        P3 == rm # None /\ rm[1].score >= config.rule_high_confidence_threshold
        P4 == rm # None /\ rm[1].score >= config.rule_medium_confidence_threshold
        P5 == vr # None
    IN
    /\ P1 => IsRuleResult(r, rm[1], "rule")
    /\ (~P1 /\ P2 /\ P3 /\ vr[1].confidence > rm[1].score) => (r = vr[1] /\ r.method = "vector")
    /\ (~P1 /\ P2 /\ P3 /\ vr[1].confidence < rm[1].score) => IsRuleResult(r, rm[1], "hybrid")
    /\ (~P1 /\ P2 /\ P3 /\ vr[1].confidence = rm[1].score) =>
           (r = vr[1] \/ IsRuleResult(r, rm[1], "hybrid"))
    /\ (~P1 /\ P2 /\ ~P3) => (r = vr[1] /\ r.method = "vector")
    /\ (~P1 /\ ~P2 /\ P3) => IsRuleResult(r, rm[1], "rule")
    /\ (~P1 /\ ~P2 /\ ~P3 /\ P4) => IsRuleResult(r, rm[1], "rule")
    /\ (~P1 /\ ~P2 /\ ~P3 /\ ~P4 /\ P5) => (r = vr[1] /\ r.method = "vector")
    /\ (~P1 /\ ~P2 /\ ~P3 /\ ~P4 /\ ~P5) => IsFallback(r, 200)

\* C3 witness: both results are high, the early exit is not met, and the rule
\* match was returned as HYBRID.
C3_Witness ==
    /\ pc = "selected"
    /\ rule_match # None
    /\ vector_result # None
    /\ rule_match[1].score < config.early_exit_threshold
    /\ rule_match[1].score >= config.rule_high_confidence_threshold
    /\ vector_result[1].confidence >= config.vector_confidence_threshold
    /\ result[1].method = "hybrid"

StepRank(s) ==
    CASE s = "cache_lookup" -> 1
      [] s = "relevance" -> 2
      [] s = "rule" -> 3
      [] s = "vector" -> 4
      [] s = "embed_text" -> 5
      [] s = "search" -> 6
      [] s = "arbitrate" -> 7
      [] s = "cache_write" -> 8

StepBefore(s) ==
    CASE s = "cache_lookup" -> {}
      [] s = "relevance" -> {"cache_lookup"}
      [] s = "rule" -> {"relevance"}
      [] s = "vector" -> {"rule"}
      [] s = "embed_text" -> {"vector"}
      [] s = "search" -> {"embed_text"}
      [] s = "arbitrate" -> {"rule", "vector", "embed_text", "search"}
      [] s = "cache_write" -> {"arbitrate"}

C6_CacheOnlyConfident ==
    /\ \A i \in 1..Len(cache) :
          /\ cache[i].value.confidence >= config.cache_min_confidence
          /\ cache[i].value.method # "fallback"
          /\ cache[i].value.confidence \notin {100, 200}
    /\ CacheHit => (result[1].confidence >= config.cache_min_confidence
                    /\ result[1].method # "fallback")

\* C6 witness: arbitration ended in the 0.2 FALLBACK, which was returned
\* without a cache write, while the cache held other entries.
C6_Witness ==
    /\ pc = "done"
    /\ exc = ""
    /\ Called("arbitrate")
    /\ ~Called("cache_write")
    /\ IsFallback(result[1], 200)
    /\ Len(cache) > 0
    /\ generate_cache_key(query) \notin Keys(cache)

\* C7: once detect_intent(q) has returned r with confidence >=
\* cache_min_confidence, a later call with a query of the same normalization,
\* made before the entry expires or is evicted, returns r's id, confidence and
\* method and calls neither the rule detector nor the vector search.
C7_CacheServesRepeat ==
    (pc = "done" /\ expect # None)
    => /\ result[1].id = expect[1].id
       /\ result[1].confidence = expect[1].confidence
       /\ result[1].method = expect[1].method
       /\ trace = <<"cache_lookup">>

\* C7 witness: "it" was answered from the entry that a call with another
\* query of the same normalization ("information technology") had written.
C7_Witness ==
    /\ pc = "done"
    /\ expect # None
    /\ query = <<"it">>
    /\ result = expect
    /\ now > 0


(***************************************************************************)
(* MemoryCacheService shared by concurrent tasks.  Each operation is taken *)
(* statement by statement; the event loop runs one task until it yields.   *)
(***************************************************************************)
Tasks == {"t1", "t2"}

IdleTask ==
    [pc |-> "idle", key |-> "", current_time |-> 0, expiry_time |-> 0,
     oldest_key |-> "", last |-> "", error |-> ""]

\* self._cache[key] = (value, expiry_time): a new key goes to the end, a
\* stored key keeps its place
StoreItem(c, k, v, expiry) ==
    IF k \in Keys(c)
    THEN [i \in 1..Len(c) |->
            IF c[i].key = k THEN [key |-> k, value |-> v, expiry |-> expiry] ELSE c[i]]
    ELSE c \o <<[key |-> k, value |-> v, expiry |-> expiry]>>

\* get, set, delete and clear hold no await: a task inside one of them
\* reaches its end before the event loop runs another task
yields_at_EveryStatement(p) == TRUE

yields_at(p) == p = "idle"

\* the event loop may run task t
Runnable(t) == \A u \in Tasks \ {t} : yields_at(tasks[u].pc)

InitTasks ==
    /\ cache = <<>>
    /\ now = 0
    /\ lastOp = NoOp
    /\ recency = <<>>
    /\ req = [k \in CacheKeys |-> None]
    /\ DefaultService
    /\ vector_search_enabled = FALSE
    /\ faults = FALSE
    /\ NoCall
    /\ tasks = [t \in Tasks |-> IdleTask]
    /\ detector = <<>>
    /\ batch = <<>>
    /\ search_candidates = <<>>
    /\ NoExtra

TaskFrame ==
    UNCHANGED <<now, lastOp, recency, req, serviceVars, callVars, detector, batch,
                search_candidates, extraVars>>

\* the task leaves the operation
Finish(t, c, outcome, err) ==
    /\ cache' = c
    /\ tasks' = [tasks EXCEPT ![t] = [IdleTask EXCEPT !.last = outcome, !.error = err]]

Goto(t, p) == tasks' = [tasks EXCEPT ![t].pc = p]

\* await self.cache_service.get(key): current_time = time.time()
BeginGet(t, k) ==
    /\ Runnable(t)
    /\ tasks[t].pc = "idle"
    /\ tasks[t].error = ""
    /\ tasks' = [tasks EXCEPT ![t] = [IdleTask EXCEPT !.pc = "get_test", !.key = k,
                                                      !.current_time = now]]
    /\ UNCHANGED cache
    /\ TaskFrame

\* if key in self._cache: value, expiry_time = self._cache[key]
GetTest(t) ==
    /\ Runnable(t)
    /\ tasks[t].pc = "get_test"
    /\ IF tasks[t].key \in Keys(cache)
       THEN /\ tasks' = [tasks EXCEPT ![t].pc = "get_expired",
                                      ![t].expiry_time = cache[IndexOf(cache, tasks[t].key)].expiry]
            /\ UNCHANGED cache
       ELSE Finish(t, cache, "", "")
    /\ TaskFrame

\* if current_time > expiry_time
GetExpired(t) ==
    /\ Runnable(t)
    /\ tasks[t].pc = "get_expired"
    /\ Goto(t, IF tasks[t].current_time > tasks[t].expiry_time THEN "get_del" ELSE "get_move")
    /\ UNCHANGED cache
    /\ TaskFrame

\* del self._cache[key]
GetDel(t) ==
    /\ Runnable(t)
    /\ tasks[t].pc = "get_del"
    /\ IF tasks[t].key \in Keys(cache)
       THEN Finish(t, Without(cache, tasks[t].key), "purged", "")
       ELSE Finish(t, cache, "", "KeyError")
    /\ TaskFrame

\* self._cache.move_to_end(key)
GetMove(t) ==
    /\ Runnable(t)
    /\ tasks[t].pc = "get_move"
    /\ IF tasks[t].key \in Keys(cache)
       THEN Finish(t, MoveToEnd(cache, tasks[t].key), "promoted", "")
       ELSE Finish(t, cache, "", "KeyError")
    /\ TaskFrame

\* await self.cache_service.set(key, value, ttl_seconds): expiry_time = time.time() + ttl
BeginSet(t, k, ttl_seconds) ==
    /\ Runnable(t)
    /\ tasks[t].pc = "idle"
    /\ tasks[t].error = ""
    /\ tasks' = [tasks EXCEPT ![t] = [IdleTask EXCEPT !.pc = "set_test", !.key = k,
                                         !.expiry_time = now + EffectiveTtl(ttl_seconds)]]
    /\ UNCHANGED cache
    /\ TaskFrame

\* if key not in self._cache and len(self._cache) >= self.max_size
SetTest(t) ==
    /\ Runnable(t)
    /\ tasks[t].pc = "set_test"
    /\ Goto(t, IF tasks[t].key \notin Keys(cache) /\ Len(cache) >= max_size
               THEN "set_oldest" ELSE "set_store")
    /\ UNCHANGED cache
    /\ TaskFrame

\* oldest_key = next(iter(self._cache))
SetOldest(t) ==
    /\ Runnable(t)
    /\ tasks[t].pc = "set_oldest"
    /\ IF cache = <<>>
       THEN Finish(t, cache, "", "StopIteration")
       ELSE /\ tasks' = [tasks EXCEPT ![t].pc = "set_del", ![t].oldest_key = cache[1].key]
            /\ UNCHANGED cache
    /\ TaskFrame

\* del self._cache[oldest_key]
SetDel(t) ==
    /\ Runnable(t)
    /\ tasks[t].pc = "set_del"
    /\ IF tasks[t].oldest_key \in Keys(cache)
       THEN /\ cache' = Without(cache, tasks[t].oldest_key)
            /\ Goto(t, "set_store")
       ELSE Finish(t, cache, "", "KeyError")
    /\ TaskFrame

\* self._cache[key] = (value, expiry_time)
SetStore(t) ==
    /\ Runnable(t)
    /\ tasks[t].pc = "set_store"
    /\ cache' = StoreItem(cache, tasks[t].key, "v1", tasks[t].expiry_time)
    /\ Goto(t, "set_move")
    /\ TaskFrame

\* self._cache.move_to_end(key)
SetMove(t) ==
    /\ Runnable(t)
    /\ tasks[t].pc = "set_move"
    /\ IF tasks[t].key \in Keys(cache)
       THEN Finish(t, MoveToEnd(cache, tasks[t].key),
                   IF tasks[t].oldest_key # "" THEN "evicted" ELSE "", "")
       ELSE Finish(t, cache, "", "KeyError")
    /\ TaskFrame

\* await self.cache_service.delete(key)
BeginDelete(t, k) ==
    /\ Runnable(t)
    /\ tasks[t].pc = "idle"
    /\ tasks[t].error = ""
    /\ tasks' = [tasks EXCEPT ![t] = [IdleTask EXCEPT !.pc = "delete_test", !.key = k]]
    /\ UNCHANGED cache
    /\ TaskFrame

\* if key in self._cache
DeleteTest(t) ==
    /\ Runnable(t)
    /\ tasks[t].pc = "delete_test"
    /\ IF tasks[t].key \in Keys(cache)
       THEN Goto(t, "delete_del") /\ UNCHANGED cache
       ELSE Finish(t, cache, "", "")
    /\ TaskFrame

\* del self._cache[key]
DeleteDel(t) ==
    /\ Runnable(t)
    /\ tasks[t].pc = "delete_del"
    /\ IF tasks[t].key \in Keys(cache)
       THEN Finish(t, Without(cache, tasks[t].key), "", "")
       ELSE Finish(t, cache, "", "KeyError")
    /\ TaskFrame

\* await self.cache_service.clear(): self._cache.clear()
ClearAll(t) ==
    /\ Runnable(t)
    /\ tasks[t].pc = "idle"
    /\ tasks[t].error = ""
    /\ Finish(t, <<>>, "", "")
    /\ TaskFrame

\* time.time() advances
TaskTick ==
    /\ now + CacheTick <= CacheMaxTime
    /\ now' = now + CacheTick
    /\ UNCHANGED <<cache, lastOp, recency, req, serviceVars, callVars, otherVars>>

NextTasks ==
    \/ \E t \in Tasks, k \in CacheKeys : BeginGet(t, k)
    \/ \E t \in Tasks : GetTest(t)
    \/ \E t \in Tasks : GetExpired(t)
    \/ \E t \in Tasks : GetDel(t)
    \/ \E t \in Tasks : GetMove(t)
    \/ \E t \in Tasks, k \in CacheKeys : BeginSet(t, k, Some(CacheTick))
    \/ \E t \in Tasks : SetTest(t)
    \/ \E t \in Tasks : SetOldest(t)
    \/ \E t \in Tasks : SetDel(t)
    \/ \E t \in Tasks : SetStore(t)
    \/ \E t \in Tasks : SetMove(t)
    \/ \E t \in Tasks, k \in CacheKeys : BeginDelete(t, k)
    \/ \E t \in Tasks : DeleteTest(t)
    \/ \E t \in Tasks : DeleteDel(t)
    \/ \E t \in Tasks : ClearAll(t)
    \/ TaskTick

SpecTasks == InitTasks /\ [][NextTasks]_vars

\* C11: under every interleaving of get, set, delete and clear issued by
\* concurrent tasks, no del and no move_to_end meets a key that is already
\* gone (no KeyError, no double delete), no key is stored twice and the cache
\* holds at most max_size entries.
C11_NoCorruption ==
    /\ \A t \in Tasks : tasks[t].error = ""
    /\ \A i, j \in 1..Len(cache) : cache[i].key = cache[j].key => i = j
    /\ Len(cache) <= max_size

\* C11 witness: the last get of one task promoted a key and the last set of
\* another task evicted an entry of the same, full cache; time has passed.
C11_Witness ==
    \E a, b \in Tasks :
        /\ a # b
        /\ tasks[a].last = "promoted"
        /\ tasks[b].last = "evicted"
        /\ Len(cache) = max_size
        /\ now > 0


(***************************************************************************)
(* The batch entry point detect_batch(queries, max_concurrent): one        *)
(* detection per query, at most max_concurrent of them running at a time,  *)
(* the results collected by input position.                                *)
(***************************************************************************)
MaxBatch == 3           \* longest list of queries
MaxConcurrent == 2      \* largest max_concurrent

BatchQueries == {<<"tuition">>, <<"weather">>}

RECURSIVE SeqsUpTo(_, _)
SeqsUpTo(S, n) ==
    IF n = 0 THEN {<<>>}
    ELSE LET shorter == SeqsUpTo(S, n - 1) IN
         shorter \cup {Append(q, x) : q \in {z \in shorter : Len(z) = n - 1}, x \in S}

\* what detect_intent returns for q when the rule detector finds the tuition
\* rule with score 0.85 and nothing fails
detect_intent_result(q) ==
    IF irrelevant_short_circuit(q)
    THEN create_fallback_result(100, "fallback")
    ELSE create_rule_result([intent_id |-> "tuition_inquiry", score |-> 850, weight |-> 1400],
                            "rule")

\* the semaphore: a detection starts only while fewer than max_concurrent run
may_start(running, max_concurrent) == running < max_concurrent

\* the slot of a query whose detection failed: None when the failure is left
\* to abort the batch
degrade_Propagate(e) == None

degrade(e) == Some(create_fallback_result(100, "fallback"))

\* the list returned: slot i for every input position i, whatever the order
\* of completion
collect_AsCompleted(slot, completed) == [i \in 1..Len(completed) |-> slot[completed[i]][1]]

collect(slot, completed) == [i \in 1..Len(completed) |-> slot[i][1]]

InitBatch ==
    /\ cache = <<>>
    /\ now = 0
    /\ lastOp = NoOp
    /\ recency = <<>>
    /\ req = <<>>
    /\ DefaultService
    /\ vector_search_enabled = FALSE
    /\ faults = TRUE
    /\ NoCall
    /\ tasks = <<>>
    /\ detector = <<>>
    /\ batch = [status |-> "idle"]
    /\ search_candidates = <<>>
    /\ NoExtra

BatchFrame ==
    UNCHANGED <<cacheVars, serviceVars, callVars, tasks, detector, search_candidates,
                extraVars>>

Running == {i \in 1..Len(batch.queries) : batch.state[i] = "running"}

\* detect_batch(queries, max_concurrent)
DetectBatch(queries, max_concurrent) ==
    /\ batch.status = "idle"
    /\ batch' = [status |-> "running",
                 queries |-> queries,
                 max_concurrent |-> max_concurrent,
                 state |-> [i \in 1..Len(queries) |-> "waiting"],
                 slot |-> [i \in 1..Len(queries) |-> None],
                 failed |-> {},
                 completed |-> <<>>,
                 returned |-> None]
    /\ BatchFrame

\* the detection of query i passes the semaphore
Acquire(i) ==
    /\ batch.status = "running"
    /\ i <= Len(batch.queries)
    /\ batch.state[i] = "waiting"
    /\ may_start(Cardinality(Running), batch.max_concurrent)
    /\ batch' = [batch EXCEPT !.state[i] = "running"]
    /\ BatchFrame

\* the detection of query i completes with its result
Succeed(i) ==
    /\ batch.status = "running"
    /\ i <= Len(batch.queries)
    /\ batch.state[i] = "running"
    /\ batch' = [batch EXCEPT !.state[i] = "done",
                              !.slot[i] = Some(detect_intent_result(batch.queries[i])),
                              !.completed = Append(@, i)]
    /\ BatchFrame

\* the detection of query i fails
Fail(i) ==
    /\ batch.status = "running"
    /\ i <= Len(batch.queries)
    /\ batch.state[i] = "running"
    /\ faults
    /\ IF degrade("Exception") = None
       THEN batch' = [batch EXCEPT !.status = "aborted", !.failed = @ \cup {i}]
       ELSE batch' = [batch EXCEPT !.state[i] = "done",
                                   !.slot[i] = degrade("Exception"),
                                   !.failed = @ \cup {i},
                                   !.completed = Append(@, i)]
    /\ BatchFrame

\* every detection is done: the batch returns
BatchReturn ==
    /\ batch.status = "running"
    /\ \A i \in 1..Len(batch.queries) : batch.state[i] = "done"
    /\ batch' = [batch EXCEPT !.status = "returned",
                              !.returned = Some(collect(batch.slot, batch.completed))]
    /\ BatchFrame

NextBatch ==
    \/ \E queries \in SeqsUpTo(BatchQueries, MaxBatch), max_concurrent \in 1..MaxConcurrent :
          DetectBatch(queries, max_concurrent)
    \/ \E i \in 1..MaxBatch : Acquire(i)
    \/ \E i \in 1..MaxBatch : Succeed(i)
    \/ \E i \in 1..MaxBatch : Fail(i)
    \/ BatchReturn

SpecBatch == InitBatch /\ [][NextBatch]_vars

\* C12: the batch returns exactly one result per query, the i-th being the
\* result of the detection of the i-th query, for every max_concurrent >= 1
\* and every order of completion.
C12_BatchOrder ==
    batch.status = "returned"
    => LET out == batch.returned[1] IN
       /\ Len(out) = Len(batch.queries)
       /\ \A i \in 1..Len(out) :
             out[i] = IF i \in batch.failed
                      THEN create_fallback_result(100, "fallback")
                      ELSE detect_intent_result(batch.queries[i])

\* C12 witness: a batch of three queries with different results has returned
\* after its detections completed in an order other than the input order.
C12_Witness ==
    /\ batch.status = "returned"
    /\ Len(batch.queries) = 3
    /\ batch.max_concurrent = 2
    /\ batch.completed[1] # 1
    /\ batch.returned[1][1] # batch.returned[1][2]

\* C13: a failure while detecting one query never aborts the batch: the
\* batch is never aborted, and when it returns the slot of every failed query
\* holds the FALLBACK result and every other query has its own result.
C13_BatchFailureIsolated ==
    /\ batch.status # "aborted"
    /\ batch.status = "returned"
       => \A i \in 1..Len(batch.queries) :
             IF i \in batch.failed
             THEN IsFallback(batch.returned[1][i], 100)
             ELSE batch.returned[1][i] = detect_intent_result(batch.queries[i])

\* C13 witness: a batch has returned in which one detection failed and
\* another query got a result that is no fallback.
C13_Witness ==
    /\ batch.status = "returned"
    /\ \E i, j \in 1..Len(batch.queries) :
          /\ i \in batch.failed
          /\ j \notin batch.failed
          /\ batch.returned[1][j].method = "rule"


(***************************************************************************)
(* normalize_vietnamese on its own: every text of up to MaxWords places    *)
(* over a vocabulary that holds abbreviations, their expansions, upper     *)
(* case and extra whitespace.                                              *)
(***************************************************************************)
MaxWords == 3

NormalizeWords == {"", "fpt", "FPT", "it", "university", "marketing", "tuition"}

InitNormalize ==
    /\ cache = <<>>
    /\ now = 0
    /\ lastOp = NoOp
    /\ recency = <<>>
    /\ req = <<>>
    /\ DefaultService
    /\ vector_search_enabled = FALSE
    /\ faults = FALSE
    /\ pc = "normalize"
    /\ query \in SeqsUpTo(NormalizeWords, MaxWords)
    /\ rule_match = None
    /\ query_embedding = None
    /\ vector_result = None
    /\ best_result = None
    /\ result = None
    /\ exc = ""
    /\ trace = <<>>
    /\ expect = None
    /\ NoOther

\* text = normalize_vietnamese(text), applied once more to its own result
Normalize ==
    /\ pc \in {"normalize", "normalized"}
    /\ Len(trace) < 2
    /\ LET text == IF trace = <<>> THEN query ELSE trace[Len(trace)] IN
       trace' = Append(trace, normalize_vietnamese(text))
    /\ pc' = "normalized"
    /\ UNCHANGED <<cacheVars, serviceVars, otherVars, query, rule_match, query_embedding,
                   vector_result, best_result, result, exc, expect>>

NextNormalize == Normalize

SpecNormalize == InitNormalize /\ [][NextNormalize]_vars

\* C14: normalize_vietnamese is idempotent: normalizing a normalized text
\* gives the same text.
C14_NormalizeIdempotent == Len(trace) = 2 => trace[2] = trace[1]


\* C24: every result detect_intent returns, on every path, has a confidence
\* in [0, 1] and a method among rule, vector, rerank, hybrid and fallback.
C24_ResultWellFormed ==
    pc = "done" =>
        /\ result # None
        /\ 0 <= result[1].confidence
        /\ result[1].confidence <= 1000
        /\ result[1].method \in DetectionMethod

\* C24 witness: a call has returned the boosted vector result, 0.95.
C24_Witness ==
    /\ pc = "done"
    /\ exc = ""
    /\ Called("arbitrate")
    /\ result[1].method = "vector"
    /\ result[1].confidence = 950
    /\ result[1].metadata.confidence_adjusted


(***************************************************************************)
(* IntentRule and RuleBasedDetectorImpl.  A weight is in tenths, a         *)
(* priority weight in tenths, a score in millionths: the products of       *)
(* _calculate_score are exact.  Keywords and patterns are single words.    *)
(***************************************************************************)
ScoreCap == 1000000                     \* 1.0
rule_early_exit_threshold == 900000     \* 0.9

\* keyword in word
IsSubstring(kw, w) ==
    \/ kw = w
    \/ kw = "it" /\ w \in {"tuition", "university", "digital"}

\* word.find(keyword)
OffsetIn(kw, w) ==
    IF kw = w THEN 0
    ELSE CASE w = "tuition" -> 2
           [] w = "digital" -> 3
           [] w = "university" -> 7

\* the index in the text of the first character of word i
StartOf(t, i) == SumLen(SubSeq(t, 1, i - 1)) + (i - 1)

\* the words of a keyword: one word, or the words of a phrase
PhraseWords(kw) ==
    IF kw = "information technology" THEN <<"information", "technology">> ELSE <<kw>>

\* the keyword lies in the text from word i on: a phrase word for word, a
\* single word also inside a longer word
OccursAt(t, kw, i) ==
    LET ws == PhraseWords(kw) IN
    /\ i + Len(ws) - 1 <= Len(t)
    /\ IF Len(ws) = 1 THEN IsSubstring(kw, t[i])
       ELSE \A j \in 1..Len(ws) : t[i + j - 1] = ws[j]

\* text.find(kw), -1 when kw is not in the text
Find(t, kw) ==
    LET hits == {i \in 1..Len(t) : OccursAt(t, kw, i)} IN
    IF hits = {} THEN -1
    ELSE LET i == CHOOSE x \in hits : \A y \in hits : x <= y IN
         StartOf(t, i) + (IF Len(PhraseWords(kw)) = 1 THEN OffsetIn(kw, t[i]) ELSE 0)

\* IntentRule.priority_weight
priority_weight(rule) ==
    CASE rule.priority = "high" -> 12
      [] rule.priority = "medium" -> 10
      [] rule.priority = "low" -> 8
      [] OTHER -> 10

\* IntentRule.matches_keywords
matches_keywords(rule, text) ==
    SelectSeq(rule.keywords, LAMBDA kw : Find(MapLower(text), Lower(kw)) >= 0)

\* IntentRule.matches_patterns
matches_patterns(rule, text) ==
    SelectSeq(rule.patterns, LAMBDA p : Find(MapLower(text), Lower(p)) >= 0)

\* IntentRule.has_negative_keywords
has_negative_keywords_Never(rule, text) == FALSE

has_negative_keywords(rule, text) ==
    \E i \in 1..Len(rule.negative_keywords) :
        Find(MapLower(text), Lower(rule.negative_keywords[i])) >= 0

\* sum(1 for kw in matched_keywords if kw.lower() in query_words)
exact_matches_Substring(matched_keywords, text) == Len(matched_keywords)

exact_matches(matched_keywords, text) ==
    Cardinality({i \in 1..Len(matched_keywords) :
                    \E j \in 1..Len(text) : Lower(text[j]) = Lower(matched_keywords[i])})

\* _calculate_score, from the weight, the priority weight and the numbers of
\* matched keywords, matched patterns and exact keyword matches
score_of_Uncapped(weight, pw, K, P, E) ==
    ((4 * K + 6 * P) * weight * pw)
        * (IF K + P > 1 THEN 10 + (K + P - 1) ELSE 10)
        * (IF E > 0 THEN 100 + 5 * E ELSE 100)

score_of(weight, pw, K, P, E) ==
    LET keyword_pattern == (4 * K + 6 * P) * weight      \* hundredths
        prioritised == keyword_pattern * pw               \* thousandths
        multiple == IF K + P > 1
                    THEN prioritised * (10 + (K + P - 1))
                    ELSE prioritised * 10                 \* ten-thousandths
        exact == IF E > 0
                 THEN multiple * (100 + 5 * E)
                 ELSE multiple * 100                      \* millionths
    IN IF exact <= ScoreCap THEN exact ELSE ScoreCap

\* RuleBasedDetectorImpl._calculate_score
calculate_score(rule, matched_keywords, matched_patterns, text) ==
    score_of(rule.weight, priority_weight(rule), Len(matched_keywords),
             Len(matched_patterns), exact_matches(matched_keywords, text))

\* RuleBasedDetectorImpl._find_first_match_position
find_first_match_position(text, matched_keywords, matched_patterns) ==
    LET positions ==
            {Find(MapLower(text), Lower(matched_keywords[i])) : i \in 1..Len(matched_keywords)}
            \cup {Find(MapLower(text), Lower(matched_patterns[i])) : i \in 1..Len(matched_patterns)}
        found == {x \in positions : x >= 0}
    IN IF found = {} THEN 0 ELSE CHOOSE x \in found : \A y \in found : x <= y

\* RuleBasedDetectorImpl._match_rule
match_rule(rule, normalized_query) ==
    IF has_negative_keywords(rule, normalized_query) THEN None
    ELSE LET matched_keywords == matches_keywords(rule, normalized_query)
             matched_patterns == matches_patterns(rule, normalized_query)
         IN IF matched_keywords # <<>> \/ matched_patterns # <<>>
            THEN Some([intent_id |-> rule.intent_id,
                       score |-> calculate_score(rule, matched_keywords, matched_patterns,
                                                 normalized_query),
                       matched_keywords |-> matched_keywords,
                       matched_patterns |-> matched_patterns,
                       weight |-> rule.weight,
                       position |-> find_first_match_position(normalized_query,
                                                              matched_keywords,
                                                              matched_patterns)])
            ELSE None

\* detect: if best_score >= self.early_exit_threshold: break
stops_early(best_score, threshold) == best_score >= threshold

\* detect: the loop over self.rules from rule i on
RECURSIVE detect_loop(_, _, _, _, _)
detect_loop(rules, i, best_match, normalized_query, threshold) ==
    IF i > Len(rules) THEN best_match
    ELSE IF ~rules[i].enabled
    THEN detect_loop(rules, i + 1, best_match, normalized_query, threshold)
    ELSE LET match == match_rule(rules[i], normalized_query)
             best_score == IF best_match = None THEN 0 ELSE best_match[1].score
         IN IF match # None /\ match[1].score > best_score
            THEN IF stops_early(match[1].score, threshold)
                 THEN match
                 ELSE detect_loop(rules, i + 1, match, normalized_query, threshold)
            ELSE detect_loop(rules, i + 1, best_match, normalized_query, threshold)

\* self.rules.sort(key=lambda r: (r.priority_weight, r.weight), reverse=True):
\* r comes before s
SortsBefore(r, s) ==
    \/ priority_weight(r) > priority_weight(s)
    \/ priority_weight(r) = priority_weight(s) /\ r.weight > s.weight

\* the sort is stable: a rule goes behind the rules it does not come before
RECURSIVE InsertRule(_, _)
InsertRule(sorted, r) ==
    IF sorted = <<>> THEN <<r>>
    ELSE IF SortsBefore(r, Head(sorted)) THEN <<r>> \o sorted
    ELSE <<Head(sorted)>> \o InsertRule(Tail(sorted), r)

RECURSIVE sort_rules(_)
sort_rules(rules) ==
    IF rules = <<>> THEN <<>>
    ELSE InsertRule(sort_rules(SubSeq(rules, 1, Len(rules) - 1)), rules[Len(rules)])

\* normalize_vietnamese behind @lru_cache: a text normalized before is
\* answered from the memo
lru_cached_Stale(memo, text) ==
    IF DOMAIN memo # {} THEN memo[CHOOSE t \in DOMAIN memo : TRUE]
    ELSE normalize_vietnamese(text)

lru_cached(memo, text) ==
    IF text \in DOMAIN memo THEN memo[text] ELSE normalize_vietnamese(text)

\* the memo after normalize_vietnamese(text)
Memoize(memo, text) ==
    IF text \in DOMAIN memo THEN memo
    ELSE [t \in DOMAIN memo \cup {text} |->
            IF t = text THEN normalize_vietnamese(text) ELSE memo[t]]


(***************************************************************************)
(* The rule-based detector as a state machine: a detector constructed over *)
(* a rule set answers one query after another.                             *)
(***************************************************************************)
MaxRules == 2

RuleWeights == {15, 20}

RuleIntents ==
    { [intent_id |-> "tuition_inquiry", keywords |-> <<"tuition">>, patterns |-> <<>>],
      [intent_id |-> "program_information", keywords |-> <<"it", "technology">>,
       patterns |-> <<>>],
      [intent_id |-> "career_opportunities", keywords |-> <<"marketing">>,
       patterns |-> <<"digital">>] }

\* IntentRule: the fields the detector reads.  An enabled rule comes with and
\* without a negative keyword, a disabled rule without.
RulePool ==
    { rule \in
        { [intent_id |-> r.intent_id, keywords |-> r.keywords, patterns |-> r.patterns,
           weight |-> w, negative_keywords |-> n, priority |-> p, enabled |-> e] :
            r \in RuleIntents, w \in RuleWeights, n \in {<<>>, <<"weather">>},
            p \in {"high", "medium"}, e \in BOOLEAN } :
        rule.enabled \/ rule.negative_keywords = <<>> }

\* the rule lists a detector is constructed with: one rule per intent
RuleSets ==
    { rs \in SeqsUpTo(RulePool, MaxRules) :
        /\ rs # <<>>
        /\ \A i, j \in 1..Len(rs) : i # j => rs[i].intent_id # rs[j].intent_id }

RuleQueries ==
    { <<"tuition">>, <<"tuition", "it", "marketing">>, <<"tuition", "weather">> }

\* RuleBasedDetectorImpl.__init__
InitRules ==
    /\ cache = <<>>
    /\ now = 0
    /\ lastOp = NoOp
    /\ recency = <<>>
    /\ req = <<>>
    /\ DefaultService
    /\ vector_search_enabled = FALSE
    /\ faults = FALSE
    /\ pc = "idle"
    /\ query = <<>>
    /\ rule_match = None
    /\ query_embedding = None
    /\ vector_result = None
    /\ best_result = None
    /\ result = None
    /\ exc = ""
    /\ trace = <<>>
    /\ expect = None
    /\ tasks = <<>>
    /\ batch = <<>>
    /\ search_candidates = <<>>
    /\ NoExtra
    /\ \E rs \in RuleSets :
        detector = [rules |-> sort_rules(rs),
                    early_exit_threshold |-> rule_early_exit_threshold,
                    memo |-> <<>>,
                    normalized_query |-> <<>>,
                    seen |-> [q \in RuleQueries |-> None]]

\* RuleBasedDetectorImpl.detect.  best_result keeps what the loop returns
\* when it never stops early; seen keeps the first answer to each query.
Detect(q) ==
    /\ pc \in {"idle", "detected"}
    /\ LET cleaned_query == lru_cached(detector.memo, q)
           memo1 == Memoize(detector.memo, q)
           normalized_query == lru_cached(memo1, cleaned_query)
           memo2 == Memoize(memo1, cleaned_query)
           best_match == detect_loop(detector.rules, 1, None, normalized_query,
                                     detector.early_exit_threshold)
       IN /\ rule_match' = best_match
          /\ best_result' = detect_loop(detector.rules, 1, None, normalized_query,
                                        ScoreCap + 1)
          /\ detector' = [detector EXCEPT
                            !.memo = memo2,
                            !.normalized_query = normalized_query,
                            !.seen = IF @[q] = None
                                     THEN [@ EXCEPT ![q] = Some(best_match)]
                                     ELSE @]
    /\ query' = q
    /\ pc' = "detected"
    /\ UNCHANGED <<cacheVars, serviceVars, tasks, batch, search_candidates, extraVars,
                   query_embedding, vector_result,
                   result, exc, trace, expect>>

NextRules == \E q \in RuleQueries : Detect(q)

SpecRules == InitRules /\ [][NextRules]_vars

\* the matches of the enabled rules
AllMatches ==
    { match_rule(detector.rules[i], detector.normalized_query)[1] :
        i \in { j \in 1..Len(detector.rules) :
                  /\ detector.rules[j].enabled
                  /\ match_rule(detector.rules[j], detector.normalized_query) # None } }

C17_NegativeAndDisabledNeverMatch ==
    pc = "detected" /\ rule_match # None =>
        \A i \in 1..Len(detector.rules) :
            detector.rules[i].intent_id = rule_match[1].intent_id =>
                /\ detector.rules[i].enabled
                /\ \A n \in 1..Len(detector.rules[i].negative_keywords) :
                      Find(detector.normalized_query,
                           detector.rules[i].negative_keywords[n]) < 0

C17_Witness ==
    /\ pc = "detected"
    /\ rule_match = None
    /\ \E i, j \in 1..Len(detector.rules) :
        /\ detector.rules[i].enabled
        /\ detector.rules[i].negative_keywords = <<"weather">>
        /\ Find(detector.normalized_query, "weather") >= 0
        /\ matches_keywords(detector.rules[i], detector.normalized_query) # <<>>
        /\ ~detector.rules[j].enabled
        /\ detector.rules[j].negative_keywords = <<>>
        /\ matches_keywords(detector.rules[j], detector.normalized_query) # <<>>


\* C18: when two rules match, the match whose first matched keyword is more
\* than 20 characters earlier wins, otherwise the higher score wins; a winner
\* scoring below 0.6 gives way to the highest score.
C18_PositionTieBreak ==
    pc = "detected" /\ Cardinality(AllMatches) = 2 =>
        \E a, b \in AllMatches :
            /\ a # b
            /\ \/ a.position + 20 < b.position
               \/ /\ a.position <= b.position + 20
                  /\ b.position <= a.position + 20
                  /\ a.score >= b.score
            /\ rule_match = IF a.score < 600000 /\ b.score > a.score
                            THEN Some(b) ELSE Some(a)


\* C19: the early exit of the rule loop is only an optimization: detect
\* returns what evaluating all the enabled rules would return.
C19_EarlyExitOnlyOptimization ==
    pc = "detected" => rule_match = best_result


(***************************************************************************)
(* _calculate_score alone, over the weights IntentRule accepts, every      *)
(* priority and the numbers of matches.                                    *)
(***************************************************************************)
MaxMatched == 3

\* 0.1 <= weight <= 2.0, in tenths
MinWeight == 1

MaxWeight == 20

ValidWeights == MinWeight..MaxWeight

Priorities == {"high", "medium", "low", "urgent"}

InitScore ==
    /\ cache = <<>>
    /\ now = 0
    /\ lastOp = NoOp
    /\ recency = <<>>
    /\ req = <<>>
    /\ DefaultService
    /\ vector_search_enabled = FALSE
    /\ faults = FALSE
    /\ pc = "score"
    /\ query = <<>>
    /\ rule_match = None
    /\ query_embedding = None
    /\ vector_result = None
    /\ best_result = None
    /\ result = None
    /\ exc = ""
    /\ trace = <<>>
    /\ expect = None
    /\ tasks = <<>>
    /\ batch = <<>>
    /\ search_candidates = <<>>
    /\ NoExtra
    /\ \E w \in ValidWeights, p \in Priorities, K \in 0..MaxMatched, P \in 0..MaxMatched :
        \E E \in 0..K :
            /\ K + P > 0
            /\ detector = [weight |-> w, priority |-> p, matched_keywords |-> K,
                           matched_patterns |-> P, exact_matches |-> E]

\* score = self._calculate_score(rule, matched_keywords, matched_patterns, ...)
Score ==
    /\ pc = "score"
    /\ rule_match' = Some([score |-> score_of(detector.weight, priority_weight(detector),
                                              detector.matched_keywords,
                                              detector.matched_patterns,
                                              detector.exact_matches)])
    /\ pc' = "scored"
    /\ UNCHANGED <<cacheVars, serviceVars, otherVars, query, query_embedding,
                   vector_result, best_result, result, exc, trace, expect>>

NextScore == Score

SpecScore == InitScore /\ [][NextScore]_vars

MaxCandidates == 2

\* scores in thousandths, on both sides of 0.9 and of 0.95
CandidateScores == {480, 650, 899, 900, 901, 950, 990, 1000}

SearchCandidates ==
    { [intent_id |-> i, score |-> sc] :
        i \in {"program_information", "campus_facilities"}, sc \in CandidateScores }

\* what QdrantVectorStore.search may return: highest score first
SearchResults ==
    { cs \in SeqsUpTo(SearchCandidates, MaxCandidates) :
        \A i \in 1..(Len(cs) - 1) : cs[i].score >= cs[i + 1].score }

InitVector ==
    /\ cache = <<>>
    /\ now = 0
    /\ lastOp = NoOp
    /\ recency = <<>>
    /\ req = <<>>
    /\ DefaultService
    /\ vector_search_enabled = TRUE
    /\ faults = FALSE
    /\ pc = "vector_search"
    /\ query = <<>>
    /\ rule_match = None
    /\ query_embedding = Some("embedding")
    /\ vector_result = None
    /\ best_result = None
    /\ result = None
    /\ exc = ""
    /\ trace = <<>>
    /\ expect = None
    /\ tasks = <<>>
    /\ detector = <<>>
    /\ batch = <<>>
    /\ search_candidates \in SearchResults
    /\ NoExtra

\* _vector_search after self.vector_store.search returned
VectorResult ==
    /\ pc = "vector_search"
    /\ vector_result' = vector_result_of(search_candidates)
    /\ pc' = "vector_searched"
    /\ UNCHANGED <<cacheVars, serviceVars, otherVars, query, rule_match, query_embedding,
                   best_result, result, exc, trace, expect>>

NextVector == VectorResult

SpecVector == InitVector /\ [][NextVector]_vars

\* C20: the vector result is built from the top candidate alone: with s its
\* score, the confidence is s when s < 0.9 and min(0.95, 1.1 * s) when
\* s >= 0.9, so it never reaches 1.0, and metadata.confidence_adjusted is
\* true exactly when the confidence differs from s.
C20_VectorConfidence ==
    pc = "vector_searched" /\ search_candidates # <<>> =>
        LET s == search_candidates[1].score
            r == vector_result[1]
        IN /\ vector_result # None
           /\ r.id = search_candidates[1].intent_id
           /\ s < 900 => r.confidence = s
           /\ s >= 900 => /\ r.confidence <= 950
                          /\ r.confidence <= (11 * s) \div 10
                          /\ r.confidence = 950 \/ r.confidence = (11 * s) \div 10
           /\ r.confidence < 1000
           /\ r.metadata.confidence_adjusted <=> r.confidence # s

C20_Witness ==
    /\ pc = "vector_searched"
    /\ Len(search_candidates) = MaxCandidates
    /\ search_candidates[1].score = 1000
    /\ search_candidates[MaxCandidates].score = 650
    /\ vector_result # None
    /\ vector_result[1].confidence = 950
    /\ vector_result[1].metadata.confidence_adjusted


(***************************************************************************)
(* CrossEncoderReranker: rerank after the constructor ran.                 *)
(***************************************************************************)
\* reranked_candidates.sort(key=lambda x: x.score, reverse=True): stable
RECURSIVE InsertByScore(_, _)
InsertByScore(sorted, c) ==
    IF sorted = <<>> THEN <<c>>
    ELSE IF c.score > Head(sorted).score THEN <<c>> \o sorted
    ELSE <<Head(sorted)>> \o InsertByScore(Tail(sorted), c)

RECURSIVE sort_by_score(_)
sort_by_score(cs) ==
    IF cs = <<>> THEN <<>>
    ELSE InsertByScore(sort_by_score(SubSeq(cs, 1, Len(cs) - 1)), cs[Len(cs)])

\* rerank: the except clause
rerank_except_Raise(candidates) == [raised |-> TRUE, ret |-> <<>>]

rerank_except(candidates) == [raised |-> FALSE, ret |-> candidates]

\* rerank: the candidates with the scores of the model, best first, cut at top_k
reranked_candidates(candidates, scores, top_k) ==
    LET rescored == [i \in 1..Len(candidates) |->
                        [intent_id |-> candidates[i].intent_id,
                         score |-> scores[i],
                         original_score |-> candidates[i].score,
                         reranked |-> TRUE]]
        sorted == sort_by_score(rescored)
    IN IF top_k # None /\ top_k[1] # 0
       THEN SubSeq(sorted, 1, Min(top_k[1], Len(sorted)))
       ELSE sorted

\* CrossEncoderReranker.rerank.  predicted is what self.model.predict does:
\* it raises or returns the scores.  With a metrics collector the call
\* increment_counter("reranker_calls", {...}) passes a dict as the value to
\* add, which raises TypeError inside the try block.
rerank(r, candidates, top_k, predicted) ==
    IF ~r.available \/ candidates = <<>>
    THEN [raised |-> FALSE, ret |-> candidates]
    ELSE IF predicted.raised
    THEN rerank_except(candidates)
    ELSE IF r.metrics_collector
    THEN rerank_except(candidates)
    ELSE [raised |-> FALSE, ret |-> reranked_candidates(candidates, predicted.scores, top_k)]

RerankScores == {200, 800}

\* the candidates handed to rerank
RerankInputs ==
    { cs \in SearchResults : \A i \in 1..Len(cs) : cs[i].score \in {650, 950} }

\* what self.model.predict(pairs) may do
PredictOutcomes(candidates) ==
    {[raised |-> TRUE, scores |-> <<>>]}
    \cup {[raised |-> FALSE, scores |-> sc] : sc \in [1..Len(candidates) -> RerankScores]}

TopKs == {None, Some(0), Some(1)}

\* CrossEncoderReranker.__init__: the model is loaded when enabled, and
\* available says whether that worked
InitRerank ==
    /\ cache = <<>>
    /\ now = 0
    /\ lastOp = NoOp
    /\ recency = <<>>
    /\ req = <<>>
    /\ DefaultService
    /\ vector_search_enabled = TRUE
    /\ faults = TRUE
    /\ pc = "rerank"
    /\ query = <<>>
    /\ rule_match = None
    /\ query_embedding = None
    /\ vector_result = None
    /\ best_result = None
    /\ result = None
    /\ exc = ""
    /\ trace = <<>>
    /\ expect = None
    /\ tasks = <<>>
    /\ detector = <<>>
    /\ batch = <<>>
    /\ search_candidates \in RerankInputs
    /\ \E enabled \in BOOLEAN, loaded \in BOOLEAN, metrics_collector \in BOOLEAN :
        reranker = [enabled |-> enabled,
                    available |-> enabled /\ loaded,
                    metrics_collector |-> metrics_collector,
                    predicted |-> [raised |-> FALSE, scores |-> <<>>],
                    raised |-> FALSE,
                    ret |-> <<>>]
    /\ loader = <<>>
    /\ metrics = <<>>
    /\ matches = <<>>

Rerank(top_k, predicted) ==
    /\ pc = "rerank"
    /\ LET r == rerank(reranker, search_candidates, top_k, predicted) IN
       reranker' = [reranker EXCEPT !.predicted = predicted,
                                    !.raised = r.raised,
                                    !.ret = r.ret]
    /\ pc' = "reranked"
    /\ UNCHANGED <<cacheVars, serviceVars, tasks, detector, batch, search_candidates,
                   loader, metrics, matches, query, rule_match, query_embedding,
                   vector_result, best_result, result, exc, trace, expect>>

NextRerank ==
    \E top_k \in TopKs : \E predicted \in PredictOutcomes(search_candidates) :
        Rerank(top_k, predicted)

SpecRerank == InitRerank /\ [][NextRerank]_vars

\* C21: rerank never raises and returns the candidates it was given, same
\* elements, order and scores, when the reranker is disabled or unavailable,
\* when the list is empty and when the model fails during scoring.
C21_RerankPassthrough ==
    pc = "reranked"
        /\ (\/ ~reranker.enabled
            \/ ~reranker.available
            \/ search_candidates = <<>>
            \/ reranker.predicted.raised)
    => ~reranker.raised /\ reranker.ret = search_candidates

C21_Witness ==
    /\ pc = "reranked"
    /\ reranker.available
    /\ ~reranker.metrics_collector
    /\ Len(search_candidates) = MaxCandidates
    /\ reranker.predicted.raised
    /\ reranker.ret = search_candidates


(***************************************************************************)
(* ProductionRuleLoader.load_rules over the contents of the rule file.  An *)
(* entry of the "rules" array is a JSON object with its fields, or a JSON  *)
(* value of another type.                                                  *)
(***************************************************************************)
MaxEntries == 2

\* patterns re.compile rejects
InvalidPatterns == {"("}

Object(fields) == [json |-> "object", fields |-> fields]

RuleEntries ==
    { Object([intent_id |-> "tuition_inquiry", keywords |-> <<"tuition">>,
              patterns |-> <<>>, weight |-> 14]),
      Object([intent_id |-> "program_information", keywords |-> <<>>,
              patterns |-> <<"technology">>, weight |-> 11, priority |-> "high"]),
      Object([intent_id |-> "campus_info", keywords |-> <<"campus">>,
              patterns |-> <<"(">>, weight |-> 12]),
      Object([intent_id |-> "campus_info", keywords |-> <<"campus">>]),
      Object([intent_id |-> "campus_info", keywords |-> <<"campus">>,
              patterns |-> <<>>, weight |-> 25]),
      Object([intent_id |-> "campus_info", keywords |-> <<>>,
              patterns |-> <<>>, weight |-> 12]),
      Object([intent_id |-> "", keywords |-> <<"campus">>,
              patterns |-> <<>>, weight |-> 12]),
      [json |-> "string"] }

\* the rule file: missing, not JSON, JSON of another shape, or an object with
\* a "rules" array
RuleFiles ==
    { [kind |-> k, rules |-> <<>>] :
        k \in {"missing", "invalid_json", "not_object", "no_rules", "rules_not_array"} }
    \cup { [kind |-> "rules", rules |-> es] : es \in SeqsUpTo(RuleEntries, MaxEntries) }

\* get_default_demo_rules, with the English keywords of each rule
get_default_demo_rules ==
    << [intent_id |-> "tuition_inquiry", keywords |-> <<"tuition", "cost">>,
        patterns |-> <<"tuition">>, weight |-> 14, negative_keywords |-> <<>>,
        priority |-> "medium", enabled |-> TRUE],
       [intent_id |-> "campus_info", keywords |-> <<"campus", "library">>,
        patterns |-> <<"campus">>, weight |-> 12, negative_keywords |-> <<>>,
        priority |-> "medium", enabled |-> TRUE],
       [intent_id |-> "program_information", keywords |-> <<"program", "major", "it">>,
        patterns |-> <<"program">>, weight |-> 11, negative_keywords |-> <<>>,
        priority |-> "medium", enabled |-> TRUE],
       [intent_id |-> "admission_requirements", keywords |-> <<"admission", "requirements">>,
        patterns |-> <<"requirements">>, weight |-> 13, negative_keywords |-> <<>>,
        priority |-> "medium", enabled |-> TRUE] >>

\* IntentRule.__post_init__ and _compile_patterns raise ValueError
post_init_raises(rule) ==
    \/ rule.intent_id = ""
    \/ rule.keywords = <<>> /\ rule.patterns = <<>>
    \/ rule.weight < MinWeight \/ rule.weight > MaxWeight
    \/ \E i \in 1..Len(rule.patterns) : rule.patterns[i] \in InvalidPatterns

\* IntentRule(intent_id=rule_data["intent_id"], ..., priority=rule_data.get(...))
intent_rule_of(fields) ==
    [intent_id |-> fields.intent_id,
     keywords |-> fields.keywords,
     patterns |-> fields.patterns,
     weight |-> fields.weight,
     negative_keywords |-> IF "negative_keywords" \in DOMAIN fields
                           THEN fields.negative_keywords ELSE <<>>,
     priority |-> IF "priority" \in DOMAIN fields THEN fields.priority ELSE "medium",
     enabled |-> IF "enabled" \in DOMAIN fields THEN fields.enabled ELSE TRUE]

\* _convert_to_intent_rules, one entry: the rule appended, or the entry
\* skipped, or an exception that leaves the loop.  An entry that is not an
\* object raises TypeError at rule_data["intent_id"], and rule_data.get in the
\* except clause raises AttributeError.
convert_entry(entry) ==
    IF entry.json # "object"
    THEN [raised |-> TRUE, rules |-> <<>>]
    ELSE IF ~({"intent_id", "keywords", "patterns", "weight"} \subseteq DOMAIN entry.fields)
    THEN [raised |-> FALSE, rules |-> <<>>]
    ELSE IF post_init_raises(intent_rule_of(entry.fields))
    THEN [raised |-> FALSE, rules |-> <<>>]
    ELSE [raised |-> FALSE, rules |-> <<intent_rule_of(entry.fields)>>]

\* _convert_to_intent_rules
RECURSIVE convert_to_intent_rules(_)
convert_to_intent_rules(entries) ==
    IF entries = <<>> THEN [raised |-> FALSE, rules |-> <<>>]
    ELSE LET first == convert_entry(Head(entries)) IN
         IF first.raised THEN first
         ELSE LET rest == convert_to_intent_rules(Tail(entries)) IN
              IF rest.raised THEN rest
              ELSE [raised |-> FALSE, rules |-> first.rules \o rest.rules]

\* _validate_rules_structure raises ValueError
validate_rules_structure_raises(file) ==
    \/ file.kind \in {"not_object", "no_rules", "rules_not_array"}
    \/ file.kind = "rules" /\ file.rules = <<>>

\* ProductionRuleLoader.load_rules
load_rules(file) ==
    IF file.kind = "missing" THEN get_default_demo_rules
    ELSE IF file.kind = "invalid_json" THEN get_default_demo_rules
    ELSE IF validate_rules_structure_raises(file) THEN get_default_demo_rules
    ELSE LET converted == convert_to_intent_rules(file.rules) IN
         IF converted.raised THEN get_default_demo_rules ELSE converted.rules

InitLoad ==
    /\ cache = <<>>
    /\ now = 0
    /\ lastOp = NoOp
    /\ recency = <<>>
    /\ req = <<>>
    /\ DefaultService
    /\ vector_search_enabled = FALSE
    /\ faults = FALSE
    /\ pc = "load"
    /\ query = <<>>
    /\ rule_match = None
    /\ query_embedding = None
    /\ vector_result = None
    /\ best_result = None
    /\ result = None
    /\ exc = ""
    /\ trace = <<>>
    /\ expect = None
    /\ tasks = <<>>
    /\ detector = <<>>
    /\ batch = <<>>
    /\ search_candidates = <<>>
    /\ reranker = <<>>
    /\ \E file \in RuleFiles : loader = [file |-> file, loaded_rules |-> <<>>]
    /\ metrics = <<>>
    /\ matches = <<>>

LoadRules ==
    /\ pc = "load"
    /\ loader' = [loader EXCEPT !.loaded_rules = load_rules(loader.file)]
    /\ pc' = "loaded"
    /\ UNCHANGED <<cacheVars, serviceVars, tasks, detector, batch, search_candidates,
                   reranker, metrics, matches, query, rule_match, query_embedding,
                   vector_result, best_result, result, exc, trace, expect>>

NextLoad == LoadRules

SpecLoad == InitLoad /\ [][NextLoad]_vars

\* an entry that is a rule: an object with the required fields, a weight in
\* [0.1, 2.0], a keyword or a pattern, and patterns that compile
ValidEntry(entry) ==
    /\ entry.json = "object"
    /\ {"intent_id", "keywords", "patterns", "weight"} \subseteq DOMAIN entry.fields
    /\ entry.fields.intent_id # ""
    /\ entry.fields.keywords # <<>> \/ entry.fields.patterns # <<>>
    /\ entry.fields.weight >= MinWeight /\ entry.fields.weight <= MaxWeight
    /\ \A i \in 1..Len(entry.fields.patterns) : entry.fields.patterns[i] \notin InvalidPatterns

\* C22: load_rules rejects only the entries that are invalid and keeps every
\* valid entry of the file, in order; a file that is missing, is not JSON, has
\* no "rules" array or an empty one gives the default rules.
C22_RejectsOnlyInvalidEntries ==
    pc = "loaded" =>
        IF loader.file.kind = "rules" /\ loader.file.rules # <<>>
        THEN LET valid == SelectSeq(loader.file.rules, ValidEntry) IN
             /\ Len(loader.loaded_rules) = Len(valid)
             /\ \A i \in 1..Len(valid) :
                   loader.loaded_rules[i].intent_id = valid[i].fields.intent_id
        ELSE loader.loaded_rules = get_default_demo_rules

\* C28: load_rules returns at least one rule whatever the file holds.
C28_LoadedRulesNonEmpty ==
    pc = "loaded" => loader.loaded_rules # <<>>


(***************************************************************************)
(* is_irrelevant_query alone, over short and long texts with and without   *)
(* domain keywords and off-topic terms.                                    *)
(***************************************************************************)
IrrelevantWords == {"", "it", "tuition", "weather", "hello"}

InitIrrelevant ==
    /\ cache = <<>>
    /\ now = 0
    /\ lastOp = NoOp
    /\ recency = <<>>
    /\ req = <<>>
    /\ DefaultService
    /\ vector_search_enabled = FALSE
    /\ faults = FALSE
    /\ pc = "judge"
    /\ query \in SeqsUpTo(IrrelevantWords, MaxWords)
    /\ rule_match = None
    /\ query_embedding = None
    /\ vector_result = None
    /\ best_result = None
    /\ result = None
    /\ exc = ""
    /\ trace = <<>>
    /\ expect = None
    /\ NoOther

\* self.text_processor.is_irrelevant_query(query)
JudgeIrrelevant ==
    /\ pc = "judge"
    /\ trace' = <<is_irrelevant_query(query)>>
    /\ pc' = "judged"
    /\ UNCHANGED <<cacheVars, serviceVars, otherVars, query, rule_match, query_embedding,
                   vector_result, best_result, result, exc, expect>>

NextIrrelevant == JudgeIrrelevant

SpecIrrelevant == InitIrrelevant /\ [][NextIrrelevant]_vars

\* the text holds a domain keyword of the vocabulary
ContainsDomainKeyword(text) == \E i \in 1..Len(text) : Lower(text[i]) \in {"it", "tuition"}

\* C23 as stated: a text that contains a domain keyword is never irrelevant,
\* whatever its length and whatever off-topic terms it also holds.
C23_DomainKeywordAlwaysRelevant ==
    pc = "judged" /\ ContainsDomainKeyword(query) => trace[1] = FALSE

\* C23 as amended: a text of at least 3 characters, surrounding whitespace
\* not counted, that contains a domain keyword is never irrelevant, whatever
\* off-topic terms it also holds.
C23_DomainKeywordOverridesOffTopic ==
    pc = "judged" /\ ContainsDomainKeyword(query) /\ TextLen(Strip(query)) >= 3
        => trace[1] = FALSE

C23_Witness ==
    /\ pc = "judged"
    /\ \E i \in 1..Len(query) : query[i] = "it"
    /\ \E i \in 1..Len(query) : query[i] = "weather"
    /\ trace[1] = FALSE


(***************************************************************************)
(* One rule against one query, as detect does it: the query is cleaned and *)
(* normalized, then _match_rule scores the rule.                           *)
(***************************************************************************)
MatchWords == {"tuition", "it", "information", "technology", "hello"}

\* rules with a single-word keyword, with a phrase keyword, with a keyword
\* that also occurs inside longer words, and with a pattern
MatchRules ==
    { [intent_id |-> r.intent_id, keywords |-> r.keywords, patterns |-> r.patterns,
       weight |-> w, negative_keywords |-> <<>>, priority |-> p, enabled |-> TRUE] :
        r \in { [intent_id |-> "tuition_inquiry", keywords |-> <<"tuition">>,
                 patterns |-> <<>>],
                [intent_id |-> "program_information",
                 keywords |-> <<"information technology", "technology">>,
                 patterns |-> <<>>],
                [intent_id |-> "career_opportunities", keywords |-> <<"it">>,
                 patterns |-> <<"hello">>] },
        w \in {5, 14}, p \in {"medium", "low"} }

InitMatch ==
    /\ cache = <<>>
    /\ now = 0
    /\ lastOp = NoOp
    /\ recency = <<>>
    /\ req = <<>>
    /\ DefaultService
    /\ vector_search_enabled = FALSE
    /\ faults = FALSE
    /\ pc = "match"
    /\ query \in SeqsUpTo(MatchWords, MaxWords)
    /\ rule_match = None
    /\ query_embedding = None
    /\ vector_result = None
    /\ best_result = None
    /\ result = None
    /\ exc = ""
    /\ trace = <<>>
    /\ expect = None
    /\ tasks = <<>>
    /\ \E rule \in MatchRules : detector = [rule |-> rule, normalized_query |-> <<>>]
    /\ batch = <<>>
    /\ search_candidates = <<>>
    /\ NoExtra

\* detect, for one rule: clean_query, normalize_vietnamese, _match_rule
MatchRule ==
    /\ pc = "match"
    /\ LET normalized_query == normalize_vietnamese(normalize_vietnamese(query)) IN
       /\ detector' = [detector EXCEPT !.normalized_query = normalized_query]
       /\ rule_match' = match_rule(detector.rule, normalized_query)
    /\ pc' = "matched"
    /\ UNCHANGED <<cacheVars, serviceVars, tasks, batch, search_candidates, extraVars,
                   query, query_embedding, vector_result, best_result, result, exc,
                   trace, expect>>

NextMatch == MatchRule

SpecMatch == InitMatch /\ [][NextMatch]_vars

\* the formula of the score, in millionths, before it is capped
FormulaScore(rule, K, P, E) ==
    (4 * rule.weight * K + 6 * rule.weight * P)
        * priority_weight(rule)
        * (IF K + P > 1 THEN 10 + (K + P - 1) ELSE 10)
        * (100 + 5 * E)

\* the matched keywords that are a whole word of the query
WholeWordMatches(matched_keywords, text) ==
    Cardinality({i \in 1..Len(matched_keywords) :
                    \E j \in 1..Len(text) : text[j] = matched_keywords[i]})

\* the matched keywords that are a whole word or a whole phrase of the query
WholeWordOrPhraseMatches(matched_keywords, text) ==
    Cardinality({i \in 1..Len(matched_keywords) :
                    LET ws == PhraseWords(matched_keywords[i]) IN
                    \E j \in 1..Len(text) :
                        /\ j + Len(ws) - 1 <= Len(text)
                        /\ \A k \in 1..Len(ws) : text[j + k - 1] = ws[k]})

\* C25 as stated: the score is the formula, capped, with E the number of
\* matched keywords that are a whole word or a whole phrase of the query.
C25_ScoreFormulaWordOrPhrase ==
    pc = "matched" /\ rule_match # None =>
        rule_match[1].score =
            Min(ScoreCap,
                FormulaScore(detector.rule,
                             Len(rule_match[1].matched_keywords),
                             Len(rule_match[1].matched_patterns),
                             WholeWordOrPhraseMatches(rule_match[1].matched_keywords,
                                                      detector.normalized_query)))

\* C25 as amended: the score is the formula, capped, with E the number of
\* matched keywords that equal one whitespace-separated token of the query:
\* a keyword found only inside a longer word does not count, and neither does
\* a keyword of several words.
C25_ScoreFormulaToken ==
    pc = "matched" /\ rule_match # None =>
        rule_match[1].score =
            Min(ScoreCap,
                FormulaScore(detector.rule,
                             Len(rule_match[1].matched_keywords),
                             Len(rule_match[1].matched_patterns),
                             WholeWordMatches(rule_match[1].matched_keywords,
                                              detector.normalized_query)))

\* C25 witness: a weight-0.5 medium-priority rule matched its phrase keyword
\* and a single-word keyword, and only the latter is an exact match:
\* (0.4 * 0.5 * 2) * 1.1 * 1.05.
C25_Witness ==
    /\ pc = "matched"
    /\ rule_match # None
    /\ detector.rule.weight = 5
    /\ detector.rule.priority = "medium"
    /\ rule_match[1].matched_keywords = <<"information technology", "technology">>
    /\ rule_match[1].score = 462000


(***************************************************************************)
(* The rule list of a detector under add_rule and remove_rule.             *)
(***************************************************************************)
\* the rules added and removed: enabled, without negative keywords, of two
\* intents, with every (priority, weight) key and keys shared between intents
SortPool ==
    { rule \in RulePool :
        /\ rule.enabled
        /\ rule.negative_keywords = <<>>
        /\ \/ rule.intent_id = "tuition_inquiry"
           \/ rule.intent_id = "career_opportunities" /\ rule.weight = 20 }

\* add_rule: self.rules.append(rule), then the sort
add_rule_NoSort(rules, rule) == Append(rules, rule)

add_rule(rules, rule) == sort_rules(Append(rules, rule))

\* remove_rule: self.rules = [r for r in self.rules if r.intent_id != intent_id]
remove_rule(rules, intent_id) == SelectSeq(rules, LAMBDA r : r.intent_id # intent_id)

\* RuleBasedDetectorImpl.__init__ over any list of rules, the empty one included
InitRuleSet ==
    /\ cache = <<>>
    /\ now = 0
    /\ lastOp = NoOp
    /\ recency = <<>>
    /\ req = <<>>
    /\ DefaultService
    /\ vector_search_enabled = FALSE
    /\ faults = FALSE
    /\ pc = "idle"
    /\ query = <<>>
    /\ rule_match = None
    /\ query_embedding = None
    /\ vector_result = None
    /\ best_result = None
    /\ result = None
    /\ exc = ""
    /\ trace = <<>>
    /\ expect = None
    /\ tasks = <<>>
    /\ batch = <<>>
    /\ search_candidates = <<>>
    /\ NoExtra
    /\ \E rs \in SeqsUpTo(SortPool, MaxRules) :
        detector = [rules |-> sort_rules(rs),
                    early_exit_threshold |-> rule_early_exit_threshold,
                    memo |-> <<>>,
                    normalized_query |-> <<>>,
                    seen |-> [q \in RuleQueries |-> None]]

\* what add_rule and remove_rule leave alone; trace keeps the last of them, and
\* the results seen under the previous rule list are forgotten
RuleSetFrame ==
    UNCHANGED <<cacheVars, serviceVars, tasks, batch, search_candidates, extraVars,
                query, rule_match, query_embedding, vector_result, best_result, result,
                exc, expect>>

\* RuleBasedDetectorImpl.add_rule
AddRule(rule) ==
    /\ Len(detector.rules) < MaxRules
    /\ detector' = [detector EXCEPT !.rules = add_rule(@, rule),
                                    !.seen = [q \in RuleQueries |-> None]]
    /\ trace' = <<"add_rule">>
    /\ pc' = "idle"
    /\ RuleSetFrame

\* RuleBasedDetectorImpl.remove_rule
RemoveRule(intent_id) ==
    /\ detector' = [detector EXCEPT !.rules = remove_rule(@, intent_id),
                                    !.seen = [q \in RuleQueries |-> None]]
    /\ trace' = <<"remove_rule">>
    /\ pc' = "idle"
    /\ RuleSetFrame

NextRuleSet ==
    \/ \E rule \in SortPool : AddRule(rule)
    \/ \E r \in RuleIntents : RemoveRule(r.intent_id)
    \/ \E q \in RuleQueries : Detect(q)

SpecRuleSet == InitRuleSet /\ [][NextRuleSet]_vars

\* the enabled rules whose match has the score detect returned
SameScore ==
    { j \in 1..Len(detector.rules) :
        /\ detector.rules[j].enabled
        /\ match_rule(detector.rules[j], detector.normalized_query) # None
        /\ match_rule(detector.rules[j], detector.normalized_query)[1].score
               = rule_match[1].score }

\* C26: after the constructor and any sequence of add_rule and remove_rule the
\* rule list is sorted by (priority_weight, weight), highest first, and of the
\* rules that reach the score detect returns, detect returns the first.
C26_RulesSorted ==
    /\ \A i, j \in 1..Len(detector.rules) :
          i < j =>
            \/ priority_weight(detector.rules[i]) > priority_weight(detector.rules[j])
            \/ /\ priority_weight(detector.rules[i]) = priority_weight(detector.rules[j])
               /\ detector.rules[i].weight >= detector.rules[j].weight
    /\ pc = "detected" /\ rule_match # None =>
          /\ SameScore # {}
          /\ LET first == CHOOSE j \in SameScore : \A k \in SameScore : j <= k IN
             rule_match = match_rule(detector.rules[first], detector.normalized_query)

\* C26 witness: after an add_rule, two rules of different intents reach the
\* same score and detect returned the match of the first.
C26_Witness ==
    /\ pc = "detected"
    /\ trace = <<"add_rule">>
    /\ rule_match # None
    /\ Cardinality(SameScore) > 1
    /\ \E j \in SameScore : detector.rules[j].intent_id # rule_match[1].intent_id


(***************************************************************************)
(* MetricsCollectorImpl: threads calling the collector, which guards its   *)
(* dictionaries with one threading.Lock.  A Lock is not reentrant: acquire *)
(* waits while the lock is held, whoever holds it.                         *)
(***************************************************************************)
max_history == 2        \* deque(maxlen=max_history)
MaxCount == 2           \* the counter is followed up to this value

Threads == {"t1", "t2"}
HistogramNames == {"latency", "size"}
MetricsOps ==
    {"increment_counter", "record_histogram", "get_histogram_stats",
     "get_all_metrics", "reset"}

\* the lock as nobody holds it
Unlocked == "unlocked"

IdleThread == [op |-> "", pc |-> "idle", name |-> "", pending |-> {}, raised |-> FALSE]

\* for name in self._histograms: the keys present (a defaultdict gains a key
\* with the first value recorded under it)
histogram_keys(histograms) == {name \in HistogramNames : histograms[name] > 0}

\* the increments called and not yet applied
PendingIncrements ==
    Cardinality({t \in Threads : /\ metrics.threads[t].op = "increment_counter"
                                 /\ metrics.threads[t].pc # "idle"})

\* MetricsCollectorImpl.__init__
InitMetrics ==
    /\ cache = <<>>
    /\ now = 0
    /\ lastOp = NoOp
    /\ recency = <<>>
    /\ req = <<>>
    /\ DefaultService
    /\ vector_search_enabled = FALSE
    /\ faults = FALSE
    /\ pc = "metrics"
    /\ query = <<>>
    /\ rule_match = None
    /\ query_embedding = None
    /\ vector_result = None
    /\ best_result = None
    /\ result = None
    /\ exc = ""
    /\ trace = <<>>
    /\ expect = None
    /\ tasks = <<>>
    /\ detector = <<>>
    /\ batch = <<>>
    /\ search_candidates = <<>>
    /\ reranker = <<>>
    /\ loader = <<>>
    /\ matches = <<>>
    /\ metrics = [lock |-> Unlocked,
                  counters |-> 0,
                  histograms |-> [name \in HistogramNames |-> 0],
                  threads |-> [t \in Threads |-> IdleThread]]

MetricsFrame ==
    UNCHANGED <<cacheVars, serviceVars, tasks, detector, batch, search_candidates,
                reranker, loader, matches, pc, query, rule_match, query_embedding,
                vector_result, best_result, result, exc, trace, expect>>

\* a thread calls a public operation and reaches its "with self._lock:"
MetricsCall(t, op, name) ==
    /\ metrics.threads[t].pc = "idle"
    /\ op = "increment_counter" => metrics.counters + PendingIncrements < MaxCount
    /\ op \in {"record_histogram", "get_histogram_stats"} <=> name # ""
    /\ metrics' = [metrics EXCEPT !.threads[t] =
                      [op |-> op, pc |-> "acquire", name |-> name, pending |-> {},
                       raised |-> FALSE]]
    /\ MetricsFrame

\* Lock.acquire, of the operation called or of the get_histogram_stats that
\* get_all_metrics calls inside its own "with self._lock:"
MetricsAcquire(t) ==
    /\ metrics.threads[t].pc \in {"acquire", "inner_acquire"}
    /\ metrics.lock = Unlocked
    /\ metrics' =
          [metrics EXCEPT
              !.lock = t,
              !.threads[t].pc = IF @ = "acquire" THEN "locked" ELSE "inner_locked",
              !.threads[t].pending =
                  IF metrics.threads[t].pc = "acquire"
                       /\ metrics.threads[t].op = "get_all_metrics"
                  THEN histogram_keys(metrics.histograms) ELSE @]
    /\ MetricsFrame

\* leaving "with self._lock:": Lock.release, which raises RuntimeError on a
\* lock that is not held
released(m, t) ==
    [m EXCEPT !.lock = Unlocked,
              !.threads[t].pc = "idle",
              !.threads[t].raised = (m.lock = Unlocked)]

\* the body of the operation under the lock
MetricsBody(t) ==
    LET th == metrics.threads[t] IN
    /\ th.pc \in {"locked", "inner_locked"}
    /\ metrics' =
          IF th.pc = "inner_locked"
          THEN \* get_histogram_stats returns to the loop of get_all_metrics
               [metrics EXCEPT !.lock = Unlocked,
                               !.threads[t].pc = "locked",
                               !.threads[t].pending = @ \ {th.name}]
          ELSE CASE th.op = "increment_counter" ->
                      released([metrics EXCEPT !.counters = @ + 1], t)
                 [] th.op = "record_histogram" ->
                      released([metrics EXCEPT !.histograms[th.name] =
                                    IF @ < max_history THEN @ + 1 ELSE @], t)
                 [] th.op = "get_histogram_stats" -> released(metrics, t)
                 [] th.op = "reset" ->
                      released([metrics EXCEPT
                                    !.counters = 0,
                                    !.histograms = [name \in HistogramNames |-> 0]], t)
                 [] th.op = "get_all_metrics" ->
                      IF th.pending = {}
                      THEN released(metrics, t)
                      ELSE \* histogram_stats[name] = self.get_histogram_stats(name)
                           [metrics EXCEPT
                               !.threads[t].pc = "inner_acquire",
                               !.threads[t].name = CHOOSE name \in th.pending : TRUE]
    /\ MetricsFrame

NextMetrics ==
    \/ \E t \in Threads, op \in MetricsOps, name \in HistogramNames \cup {""} :
          MetricsCall(t, op, name)
    \/ \E t \in Threads : MetricsAcquire(t)
    \/ \E t \in Threads : MetricsBody(t)

\* every thread runs on, and a thread waiting for a lock that is released
\* again and again gets it
SpecMetrics ==
    /\ InitMetrics
    /\ [][NextMetrics]_vars
    /\ \A t \in Threads : WF_vars(MetricsBody(t)) /\ SF_vars(MetricsAcquire(t))

\* C27: every operation called on the collector returns, get_all_metrics
\* included, whatever has been recorded and whatever other threads call.
C27_EveryCallReturns ==
    \A t \in Threads :
        (metrics.threads[t].pc # "idle") ~> (metrics.threads[t].pc = "idle")


(***************************************************************************)
(* The multi-intent tie-break of the earlier detector: the matches of a    *)
(* query sorted with functools.cmp_to_key(_compare_matches).               *)
(***************************************************************************)
position_distance == 20      \* abs(position1 - position2) > 20
weak_match_score == 600      \* best_match['score'] < 0.6

MatchIntentIds == {r.intent_id : r \in RuleIntents}
MatchPositions == {0, 15, 30}
MatchScores == {500, 700, 800, 900}

\* _compare_matches: negative when item1 sorts first
compare_matches(item1, item2) ==
    LET distance == IF item1.position >= item2.position
                    THEN item1.position - item2.position
                    ELSE item2.position - item1.position IN
    IF distance > position_distance THEN item1.position - item2.position
    ELSE IF item1.score > item2.score THEN -1
    ELSE IF item2.score > item1.score THEN 1
    ELSE 0

\* the __lt__ of the key objects of functools.cmp_to_key
cmp_lt(x, y) == compare_matches(x, y) < 0

\* list.sort, count_run: the length of the run the list starts with
RECURSIVE count_run(_, _, _)
count_run(a, descending, run) ==
    IF run < Len(a) /\ (cmp_lt(a[run + 1], a[run]) <=> descending)
    THEN count_run(a, descending, run + 1)
    ELSE run

\* a[1..run] reversed, the rest as it is
reverse_run(a, run) ==
    [i \in 1..Len(a) |-> IF i <= run THEN a[run + 1 - i] ELSE a[i]]

\* list.sort, binarysort: where the pivot goes among a[l..r-1]
RECURSIVE binary_search(_, _, _, _)
binary_search(a, pivot, l, r) ==
    IF l < r
    THEN LET p == l + ((r - l) \div 2) IN
         IF cmp_lt(pivot, a[p]) THEN binary_search(a, pivot, l, p)
         ELSE binary_search(a, pivot, p + 1, r)
    ELSE l

\* list.sort, binarysort: a[1..start-1] is sorted, the rest is inserted
RECURSIVE binarysort(_, _)
binarysort(a, start) ==
    IF start > Len(a) THEN a
    ELSE LET l == binary_search(a, a[start], 1, start) IN
         binarysort([i \in 1..Len(a) |->
                        IF i < l \/ i > start THEN a[i]
                        ELSE IF i = l THEN a[start]
                        ELSE a[i - 1]],
                    start + 1)

\* all_matches.sort(key=functools.cmp_to_key(self._compare_matches)), as
\* list.sort works on a list shorter than a merge run
list_sort(a) ==
    IF Len(a) < 2 THEN a
    ELSE LET descending == cmp_lt(a[2], a[1])
             run == count_run(a, descending, 2) IN
         binarysort(IF descending THEN reverse_run(a, run) ELSE a, run + 1)

\* max(all_matches, key=lambda x: x['score']): the first of the highest
max_by_score(all_matches) ==
    all_matches[CHOOSE i \in 1..Len(all_matches) :
        /\ \A j \in 1..Len(all_matches) : all_matches[j].score <= all_matches[i].score
        /\ \A j \in 1..(i - 1) : all_matches[j].score < all_matches[i].score]

\* _detect_intent_rule, from "Handle multi-intent queries" on
best_match_of(all_matches) ==
    IF Len(all_matches) > 1
    THEN LET sorted == list_sort(all_matches) IN
         IF sorted[1].score < weak_match_score THEN max_by_score(sorted) ELSE sorted[1]
    ELSE all_matches[1]

\* the matches of one query: at most one per intent, in the order collected
MatchLists ==
    { ms \in SeqsUpTo([intentId : MatchIntentIds, score : MatchScores,
                       position : MatchPositions], Cardinality(MatchIntentIds)) :
        /\ ms # <<>>
        /\ \A i, j \in 1..Len(ms) : i # j => ms[i].intentId # ms[j].intentId }

InitCompare ==
    /\ cache = <<>>
    /\ now = 0
    /\ lastOp = NoOp
    /\ recency = <<>>
    /\ req = <<>>
    /\ DefaultService
    /\ vector_search_enabled = FALSE
    /\ faults = FALSE
    /\ pc = "collected"
    /\ query = <<>>
    /\ rule_match = None
    /\ query_embedding = None
    /\ vector_result = None
    /\ best_result = None
    /\ result = None
    /\ exc = ""
    /\ trace = <<>>
    /\ expect = None
    /\ tasks = <<>>
    /\ detector = <<>>
    /\ batch = <<>>
    /\ search_candidates = <<>>
    /\ reranker = <<>>
    /\ loader = <<>>
    /\ metrics = <<>>
    /\ \E ms \in MatchLists :
          matches = [all_matches |-> ms, sorted |-> <<>>, best_match |-> None]

\* _detect_intent_rule once the matches are collected
SortMatches ==
    /\ pc = "collected"
    /\ matches' = [matches EXCEPT
                      !.sorted = IF Len(matches.all_matches) > 1
                                 THEN list_sort(matches.all_matches)
                                 ELSE matches.all_matches,
                      !.best_match = Some(best_match_of(matches.all_matches))]
    /\ pc' = "sorted"
    /\ UNCHANGED <<cacheVars, serviceVars, tasks, detector, batch, search_candidates,
                   reranker, loader, metrics, query, rule_match, query_embedding,
                   vector_result, best_result, result, exc, trace, expect>>

NextCompare == SortMatches

SpecCompare == InitCompare /\ [][NextCompare]_vars

\* the same matches collected in every order
Reorderings(ms) ==
    { [i \in 1..Len(ms) |-> ms[f[i]]] : f \in Permutations(1..Len(ms)) }

\* C29: the tie-break winner does not depend on the order in which the
\* matches were collected: sorting any reordering of three or more matches,
\* no two of which compare equal, puts the same match first and picks the
\* same winner.
C29_FirstIndependentOfOrder ==
    /\ pc = "sorted"
    /\ Len(matches.all_matches) >= 3
    /\ \A i, j \in 1..Len(matches.all_matches) :
          i # j => compare_matches(matches.all_matches[i], matches.all_matches[j]) # 0
    => \A ms \in Reorderings(matches.all_matches) :
          /\ list_sort(ms)[1] = matches.sorted[1]
          /\ Some(best_match_of(ms)) = matches.best_match

====
